---- MODULE Spec2Model ----
(***************************************************************************)
(* Model of the statement-parsing core of extrato_parser.py:               *)
(*   clean_value_str, normalizar_transacoes, avaliar_resultado and         *)
(*   processar_extrato_universal.                                          *)
(*                                                                         *)
(* Text is a sequence of one-character strings.  A float amount is the     *)
(* integer number of centavos it denotes (every value the parser accepts   *)
(* has at most two fractional digits).  A date (Data_dt) is its proleptic  *)
(* Gregorian ordinal, NaT is -1.                                           *)
(***************************************************************************)
EXTENDS Integers, Sequences, FiniteSets, TLC

VARIABLES
    \* ---- normalizar_transacoes run on its own ----
    transacoes,          \* the candidate list handed to normalizar_transacoes
    df,                  \* the table it returned (NoTable before the call)
    origem,              \* df.index before reset_index: source position of each row
    df2,                 \* the table returned when df's rows are fed back in
    origem2,             \* source positions of the rows of df2
    pcN,                 \* "inicio" | "normalizado" | "renormalizado" ("parado": not called)
    \* ---- processar_extrato_universal ----
    idx,                 \* position in PROCESSADORES of the next extractor
    melhor_df,
    melhor_score,
    melhor_processador,
    falha,               \* where the last iteration raised, or "nenhuma"
    primeiro,            \* per extractor output: first position that returned it (0: none)
    alguma_falha,        \* some iteration ended in the except branch
    retorno,             \* the returned DataFrame (NoTable before return)
    pc,                  \* "loop" | "fim" | "retornou" ("parado": not called)
    \* ---- linha_parece_sujo run on its own ----
    linhaS,               \* the line handed to linha_parece_sujo
    sujo,                \* what it returned (FALSE before the call)
    pcS,                 \* "inicio" | "classificado" ("parado": not called)
    \* ---- avaliar_resultado run on its own ----
    tabS,                \* a result table
    subS,                \* a table holding some of the rows of tabS
    scoreS,              \* avaliar_resultado(tabS) (ScoreInicial before the call)
    scoreSub,            \* avaliar_resultado(subS) (ScoreInicial before the call)
    pcA,                 \* "inicio" | "avaliada" | "avaliadas" ("parado": not called)
    \* ---- processar_extrato_universal on a text two extractors read ----
    cenario,             \* the two extractors and the amounts of their rows
    \* ---- processar_extrato_universal on a statement text ----
    extrato,             \* texto.splitlines(): the lines of the statement
    fontes,              \* positions of the lines at which the extractor just run
                         \* appended a transaction
    \* ---- one registered extractor run line by line on a statement text ----
    banco,               \* its name in PROCESSADORES
    formato,             \* position in formatos(banco) of the loop being run
    pos,                 \* position in extrato of the next line of the loop
    estado,              \* trans, current_date, buffer of the loop
    ultimo,              \* the line the last turn read (0: none) and the state before it
    devolvido,           \* the list the extractor returned
    normal,              \* normalizar_transacoes of that list (NoTable before the call)
    pcL,                 \* "laco" | "excecao" | "devolveu" | "normalizou" ("parado")
    \* ---- the extractors of processar_extrato_universal completing in any order ----
    pendentes,           \* names of the extractors whose result is not yet folded
    resultados,          \* per name: the table and the score its run gives on the text
    \* ---- the classification of an extracted table in batches ----
    df_transacoes,       \* the extracted table: its rows, numbered in table order
    n_batches,           \* line 305 (0 before it)
    lote,                \* j of "for j in range(n_batches)": batches begun so far
    enviados,            \* lote_df of every batch sent so far, in order
    respostas,           \* how each batch sent so far ended
    dados_classificados_lote,
    pcB                  \* "lotes" | "fim" ("parado": not called)

varsN == <<transacoes, df, origem, df2, origem2, pcN>>
varsU == <<idx, melhor_df, melhor_score, melhor_processador, falha,
           primeiro, alguma_falha, retorno, pc>>
varsS == <<linhaS, sujo, pcS>>
varsA == <<tabS, subS, scoreS, scoreSub, pcA>>
varsT == <<extrato, fontes>>
varsL == <<banco, formato, pos, estado, ultimo, devolvido, normal, pcL>>
varsP == <<pendentes, resultados>>
varsB == <<df_transacoes, n_batches, lote, enviados, respostas, dados_classificados_lote,
           pcB>>
varsX == <<linhaS, sujo, pcS, tabS, subS, scoreS, scoreSub, pcA, cenario, extrato, fontes,
           banco, formato, pos, estado, ultimo, devolvido, normal, pcL,
           pendentes, resultados,
           df_transacoes, n_batches, lote, enviados, respostas, dados_classificados_lote,
           pcB>>
vars == <<transacoes, df, origem, df2, origem2, pcN,
          idx, melhor_df, melhor_score, melhor_processador, falha,
          primeiro, alguma_falha, retorno, pc,
          linhaS, sujo, pcS, tabS, subS, scoreS, scoreSub, pcA, cenario,
          extrato, fontes,
          banco, formato, pos, estado, ultimo, devolvido, normal, pcL,
          pendentes, resultados,
          df_transacoes, n_batches, lote, enviados, respostas, dados_classificados_lote,
          pcB>>

-----------------------------------------------------------------------------
(* Bounds of the model *)

MaxLen == 4              \* longest amount text drawn in full generality
MaxCands == 3            \* longest candidate list drawn for the normalizer

-----------------------------------------------------------------------------
(* Text helpers *)

None == <<"<None>">>     \* Python None / NaN cell
NaT == -1
NoTable == [cols |-> <<"<none>">>, rows |-> <<>>]

NBSP == "nbsp"           \* the character U+00A0
NL == "nl"               \* the character U+000A
Digitos == {"0", "1", "2", "3", "4", "5", "6", "7", "8", "9"}
Brancos == {" ", NBSP, NL}   \* the whitespace characters of the model's alphabet

DigVal(c) ==
    CASE c = "0" -> 0 [] c = "1" -> 1 [] c = "2" -> 2 [] c = "3" -> 3
      [] c = "4" -> 4 [] c = "5" -> 5 [] c = "6" -> 6 [] c = "7" -> 7
      [] c = "8" -> 8 [] c = "9" -> 9

DigChar(n) ==
    CASE n = 0 -> "0" [] n = 1 -> "1" [] n = 2 -> "2" [] n = 3 -> "3"
      [] n = 4 -> "4" [] n = 5 -> "5" [] n = 6 -> "6" [] n = 7 -> "7"
      [] n = 8 -> "8" [] n = 9 -> "9"

AllDigits(s) == \A i \in 1..Len(s) : s[i] \in Digitos

RECURSIVE ParseNat(_)
ParseNat(s) ==
    IF Len(s) = 0 THEN 0
    ELSE 10 * ParseNat(SubSeq(s, 1, Len(s) - 1)) + DigVal(s[Len(s)])

RECURSIVE NatStr(_)
NatStr(n) ==
    IF n < 10 THEN <<DigChar(n)>>
    ELSE NatStr(n \div 10) \o <<DigChar(n % 10)>>

\* str.strip(): drop leading and trailing whitespace
RECURSIVE lstrip(_)
lstrip(s) ==
    IF Len(s) > 0 /\ s[1] \in Brancos THEN lstrip(Tail(s)) ELSE s

RECURSIVE rstrip(_)
rstrip(s) ==
    IF Len(s) > 0 /\ s[Len(s)] \in Brancos
    THEN rstrip(SubSeq(s, 1, Len(s) - 1)) ELSE s

strip(s) == rstrip(lstrip(s))

\* str.replace(old, new): non-overlapping occurrences, left to right
RECURSIVE replace(_, _, _)
replace(s, old, new) ==
    IF Len(s) < Len(old) THEN s
    ELSE IF SubSeq(s, 1, Len(old)) = old
         THEN new \o replace(SubSeq(s, Len(old) + 1, Len(s)), old, new)
         ELSE <<Head(s)>> \o replace(Tail(s), old, new)

\* \d+(\.\d{1,2})? matching the whole of s
NumeroInteiro(s) ==
    \/ Len(s) >= 1 /\ AllDigits(s)
    \/ \E p \in 2..Len(s) :
         /\ s[p] = "."
         /\ AllDigits(SubSeq(s, 1, p - 1))
         /\ Len(s) - p \in 1..2
         /\ AllDigits(SubSeq(s, p + 1, Len(s)))

\* re.match(r"^\d+(\.\d{1,2})?$", s): $ matches at the end of s and also
\* just before a newline that ends s
NumeroValido(s) ==
    \/ NumeroInteiro(s)
    \/ Len(s) >= 2 /\ s[Len(s)] = NL /\ NumeroInteiro(SubSeq(s, 1, Len(s) - 1))

-----------------------------------------------------------------------------
(* Characters of statement lines *)

\* "abc" as the text <<"a", "b", "c">>
Chars(str) == [i \in 1..Len(str) |-> SubSeq(str, i, i)]

\* Letters with a diacritic, each one character of the text
CCedilha == "c-cedilha"          \* U+00E7
CCedilhaM == "C-CEDILHA"         \* U+00C7
OAgudo == "o-agudo"              \* U+00F3
OAgudoM == "O-AGUDO"             \* U+00D3
ECirc == "e-circunflexo"         \* U+00EA
ECircM == "E-CIRCUNFLEXO"        \* U+00CA
ATil == "a-til"                  \* U+00E3
ATilM == "A-TIL"                 \* U+00C3
IAgudo == "i-agudo"              \* U+00ED
IAgudoM == "I-AGUDO"             \* U+00CD
AAgudo == "a-agudo"              \* U+00E1
AAgudoM == "A-AGUDO"             \* U+00C1
EAgudo == "e-agudo"              \* U+00E9
EAgudoM == "E-AGUDO"             \* U+00C9
OTil == "o-til"                  \* U+00F5
OTilM == "O-TIL"                 \* U+00D5

Minusculas ==
    Chars("abcdefghijklmnopqrstuvwxyz")
      \o <<CCedilha, OAgudo, ECirc, ATil, IAgudo, AAgudo, EAgudo, OTil>>
Maiusculas ==
    Chars("ABCDEFGHIJKLMNOPQRSTUVWXYZ")
      \o <<CCedilhaM, OAgudoM, ECircM, ATilM, IAgudoM, AAgudoM, EAgudoM, OTilM>>

PosEm(c, alfabeto) == CHOOSE k \in 1..Len(alfabeto) : alfabeto[k] = c
Pertence(c, alfabeto) == \E k \in 1..Len(alfabeto) : alfabeto[k] = c

lower_char(c) == IF Pertence(c, Maiusculas) THEN Minusculas[PosEm(c, Maiusculas)] ELSE c
upper_char(c) == IF Pertence(c, Minusculas) THEN Maiusculas[PosEm(c, Minusculas)] ELSE c

\* str.lower()
lower(s) == [i \in 1..Len(s) |-> lower_char(s[i])]

Letras == {Minusculas[k] : k \in 1..Len(Minusculas)}
            \cup {Maiusculas[k] : k \in 1..Len(Maiusculas)}

\* \w of a str pattern: letters, digits and the underscore
CharPalavra == Letras \cup Digitos \cup {"_"}

-----------------------------------------------------------------------------
(* clean_value_str and the cell conversions around it *)

\* clean_value_str without the removal of the sign marker: the '-' stays in
\* the returned string.
clean_value_str_com_sinal(s) ==
    IF Len(s) = 0 THEN None
    ELSE LET s1 == strip(s)
             s2 == replace(s1, <<"R", "$">>, <<>>)
             s3 == replace(s2, <<NBSP>>, <<>>)
             s4 == replace(s3, <<" ">>, <<>>)
             s5 == replace(s4, <<".">>, <<>>)
             s6 == replace(s5, <<",">>, <<".">>)
         IN  IF NumeroValido(replace(s6, <<"-">>, <<>>)) THEN s6 ELSE None

clean_value_str(s) ==
    IF Len(s) = 0 THEN None
    ELSE LET s1 == strip(s)
             s2 == replace(s1, <<"R", "$">>, <<>>)
             s3 == replace(s2, <<NBSP>>, <<>>)
             s4 == replace(s3, <<" ">>, <<>>)
             s5 == replace(s4, <<"-">>, <<>>)
             s6 == replace(s5, <<".">>, <<>>)
             s7 == replace(s6, <<",">>, <<".">>)
         IN  IF NumeroValido(s7) THEN s7 ELSE None

\* A cell of the Valor column: a Python str or a float (in centavos).
StrV(s) == [t |-> "str", v |-> s]
FloatV(c) == [t |-> "float", v |-> c]

\* str(x) for a float x with at most two fractional digits: 1234.5 -> "1234.5",
\* 100.0 -> "100.0", 15.9 -> "15.9", 0.07 -> "0.07"
float_str(c) ==
    LET int == NatStr(c \div 100)
        fr == c % 100
    IN  IF fr % 10 = 0 THEN int \o <<".", DigChar(fr \div 10)>>
        ELSE int \o <<".", DigChar(fr \div 10), DigChar(fr % 10)>>

\* Series.astype(str) on one cell
astype_str(x) == IF x.t = "float" THEN float_str(x.v) ELSE x.v

\* Series.astype(float) on one accepted string: float() strips the
\* whitespace around the number; a leading '-' negates
astype_float(s) ==
    LET t == strip(s)
        neg == Len(t) > 0 /\ t[1] = "-"
        u == IF neg THEN Tail(t) ELSE t
        pts == {i \in 1..Len(u) : u[i] = "."}
        mag == IF pts = {} THEN 100 * ParseNat(u)
               ELSE LET p == CHOOSE i \in pts : TRUE
                        fr == SubSeq(u, p + 1, Len(u))
                    IN  100 * ParseNat(SubSeq(u, 1, p - 1))
                          + (IF Len(fr) = 1 THEN 10 * ParseNat(fr) ELSE ParseNat(fr))
    IN  IF neg THEN 0 - mag ELSE mag

\* str.upper()
upper(s) == [i \in 1..Len(s) |-> upper_char(s[i])]

\* The mapping of the hint without .str.upper(): only a capital D is a debit
tipo_de_sem_upper(hint) ==
    LET texto == IF hint = None THEN Chars("None") ELSE hint
    IN  IF Len(texto) > 0 /\ texto[1] = "D" THEN "D" ELSE "C"

\* .astype(str).str.upper().map(lambda x: "D" if x.startswith("D") else "C");
\* astype(str) writes a missing hint as "None"
tipo_de(hint) ==
    LET texto == IF hint = None THEN Chars("None") ELSE hint
        u == upper(texto)
    IN  IF Len(u) > 0 /\ u[1] = "D" THEN "D" ELSE "C"

-----------------------------------------------------------------------------
(* pd.to_datetime(..., format='%d/%m/%Y', errors='coerce') *)

Bissexto(y) == (y % 4 = 0 /\ y % 100 # 0) \/ y % 400 = 0

DiasNoMes(m, y) ==
    CASE m \in {1, 3, 5, 7, 8, 10, 12} -> 31
      [] m \in {4, 6, 9, 11} -> 30
      [] OTHER -> IF Bissexto(y) THEN 29 ELSE 28

RECURSIVE DiasAntesDoMes(_, _)
DiasAntesDoMes(m, y) ==
    IF m = 1 THEN 0 ELSE DiasAntesDoMes(m - 1, y) + DiasNoMes(m - 1, y)

Ordinal(d, m, y) ==
    365 * (y - 1) + ((y - 1) \div 4) - ((y - 1) \div 100) + ((y - 1) \div 400)
      + DiasAntesDoMes(m, y) + d

\* %d: 3[0-1]|[1-2]\d|0[1-9]|[1-9]| [1-9]
CampoDia(s) ==
    \/ Len(s) = 1 /\ AllDigits(s) /\ s # <<"0">>
    \/ Len(s) = 2 /\ AllDigits(s) /\ ParseNat(s) \in 1..31
    \/ Len(s) = 2 /\ s[1] = " " /\ s[2] \in Digitos \ {"0"}

\* %m: 1[0-2]|0[1-9]|[1-9]
CampoMes(s) ==
    \/ Len(s) = 1 /\ AllDigits(s) /\ s # <<"0">>
    \/ Len(s) = 2 /\ AllDigits(s) /\ ParseNat(s) \in 1..12

\* %Y: \d\d\d\d
CampoAno(s) == Len(s) = 4 /\ AllDigits(s) /\ ParseNat(s) >= 1

\* to_datetime without the check of the day against the month's length
to_datetime_sem_calendario(s) ==
    LET barras == {i \in 1..Len(s) : s[i] = "/"}
    IN  IF Cardinality(barras) # 2 THEN NaT
        ELSE LET p1 == CHOOSE i \in barras : \A j \in barras : i <= j
                 p2 == CHOOSE i \in barras : \A j \in barras : i >= j
                 cd == SubSeq(s, 1, p1 - 1)
                 cm == SubSeq(s, p1 + 1, p2 - 1)
                 cy == SubSeq(s, p2 + 1, Len(s))
             IN  IF CampoDia(cd) /\ CampoMes(cm) /\ CampoAno(cy)
                 THEN Ordinal(ParseNat(SelectSeq(cd, LAMBDA c : c # " ")),
                              ParseNat(cm), ParseNat(cy))
                 ELSE NaT

\* The model's date texts keep their years inside the Timestamp range.
to_datetime(s) ==
    LET barras == {i \in 1..Len(s) : s[i] = "/"}
    IN  IF Cardinality(barras) # 2 THEN NaT
        ELSE LET p1 == CHOOSE i \in barras : \A j \in barras : i <= j
                 p2 == CHOOSE i \in barras : \A j \in barras : i >= j
                 cd == SubSeq(s, 1, p1 - 1)
                 cm == SubSeq(s, p1 + 1, p2 - 1)
                 cy == SubSeq(s, p2 + 1, Len(s))
             IN  IF CampoDia(cd) /\ CampoMes(cm) /\ CampoAno(cy)
                 THEN LET d == ParseNat(SelectSeq(cd, LAMBDA c : c # " "))
                          m == ParseNat(cm)
                          y == ParseNat(cy)
                      IN  IF d <= DiasNoMes(m, y) THEN Ordinal(d, m, y) ELSE NaT
                 ELSE NaT

-----------------------------------------------------------------------------
(* normalizar_transacoes *)

Cols4 == <<"Data", "Historico", "Valor", "Tipo">>
Cols5 == <<"Data", "Historico", "Valor", "Tipo", "Data_dt">>
DataFrameVazio == [cols |-> <<>>, rows |-> <<>>]       \* pd.DataFrame()

Permutacoes(n) ==
    {p \in [1..n -> 1..n] : \A a, b \in 1..n : a # b => p[a] # p[b]}

\* An ordering that leaves the rows as they came (no sort at all).
sort_values_sem_ordenar(chaves) ==
    {[j \in 1..Len(chaves) |-> j]}

\* An ordering that repeats the first row in every position.
sort_values_repete(chaves) ==
    {[j \in 1..Len(chaves) |-> 1]}

\* DataFrame.sort_values(by=...) with the default kind='quicksort': the rows
\* come out ascending by key, and rows with equal keys in any order.
sort_values(chaves) ==
    {p \in Permutacoes(Len(chaves)) :
        \A j \in 1..(Len(chaves) - 1) : chaves[p[j]] <= chaves[p[j + 1]]}

\* df.dropna(subset=[col]): positions of seq whose cell is not missing
dropna(posicoes, celula, faltante) ==
    SelectSeq(posicoes, LAMBDA i : celula[i] # faltante)

\* The set of results normalizar_transacoes can return for a candidate list:
\* pairs <<table, index of the sorted frame before reset_index>>.
\* The except-ValueError return of line 78 is unreachable: every string
\* clean_value_str accepts converts to float.
normalizar_transacoes(trans) ==
    IF Len(trans) = 0 THEN {<<[cols |-> Cols4, rows |-> <<>>], <<>>>>}
    ELSE
      LET todas == [i \in 1..Len(trans) |-> i]
          Valor_raw == [i \in 1..Len(trans) |->
                           clean_value_str(astype_str(trans[i].Valor))]
          k1 == dropna(todas, Valor_raw, None)
          Data_dt == [i \in 1..Len(trans) |-> to_datetime(trans[i].Data)]
          k2 == dropna(k1, Data_dt, NaT)
          Linha(i) == [Data |-> trans[i].Data,
                       Historico |-> trans[i].Historico,
                       Valor |-> astype_float(Valor_raw[i]),
                       Tipo |-> tipo_de(trans[i].Tipo),
                       Data_dt |-> Data_dt[i]]
      IN  IF Len(k2) = 0 THEN {<<[cols |-> Cols5, rows |-> <<>>], <<>>>>}
          ELSE {<<[cols |-> Cols5,
                   rows |-> [j \in 1..Len(k2) |-> Linha(k2[p[j]])]],
                  [j \in 1..Len(k2) |-> k2[p[j]]]>> :
                   p \in sort_values([j \in 1..Len(k2) |-> Data_dt[k2[j]]])}

\* A returned table fed back as candidates with the canonical field shapes:
\* Data string, description, numeric Valor, Tipo letter.
Realimentar(tabela) ==
    [j \in 1..Len(tabela.rows) |->
        [Data |-> tabela.rows[j].Data,
         Historico |-> tabela.rows[j].Historico,
         Valor |-> FloatV(tabela.rows[j].Valor),
         Tipo |-> <<tabela.rows[j].Tipo>>]]

-----------------------------------------------------------------------------
(* Inputs of the normalizer *)

DatasModelo ==
    { <<"0", "2", "/", "0", "3", "/", "2", "0", "2", "4">>,     \* 02/03/2024
      <<"0", "1", "/", "0", "3", "/", "2", "0", "2", "4">>,     \* 01/03/2024
      <<"3", "1", "/", "0", "2", "/", "2", "0", "2", "4">> }    \* 31/02/2024: no such day

\* amount text and direction hint of the model's candidates
ValorTipoModelo ==
    { <<StrV(<<"1", ".", "2", "3", "4", ",", "5">>), <<"c">>>>,   \* 1.234,5
      <<StrV(<<"-", "1", "5", ",", "9", "0">>), <<"D">>>>,        \* -15,90
      <<StrV(<<"1", "2", ",", "3", "4", "5">>), <<"D">>>> }       \* 12,345: rejected

CandidatosModelo ==
    { [Data |-> d, Historico |-> "PIX", Valor |-> vt[1], Tipo |-> vt[2]] :
        d \in DatasModelo, vt \in ValorTipoModelo }

Alfabeto == {"R", "$", "-", " ", NBSP, NL, "1", "0", ".", ","}

Textos(n) == UNION {[1..k -> Alfabeto] : k \in 0..n}

Listas(n) == UNION {[1..k -> CandidatosModelo] : k \in 0..n}

\* One candidate whose amount text is any text over the alphabet.
CandidatoLivre(s) ==
    [Data |-> <<"0", "1", "/", "0", "3", "/", "2", "0", "2", "4">>,
     Historico |-> "PIX", Valor |-> StrV(s), Tipo |-> <<"D">>]

\* Direction hints: the letters and words the extractors write, a missing
\* hint, a sign marker, and every text of up to two characters of d, D, C, -
HintsModelo ==
    { None, <<>>, Chars("enviado"), Chars("debito"), Chars("Debito"),
      Chars("DEBITO"), Chars("credito"), Chars(" D"), Chars("c") }
      \cup UNION {[1..k -> {"d", "D", "C", "-"}] : k \in 1..2}

\* One candidate whose direction hint is any of the model's hints.
CandidatoComTipo(h) ==
    [Data |-> <<"0", "1", "/", "0", "3", "/", "2", "0", "2", "4">>,
     Historico |-> "PIX", Valor |-> StrV(<<"1", "0", ",", "0", "0">>), Tipo |-> h]

EntradasNormalizador ==
    Listas(MaxCands)
      \cup {<<CandidatoLivre(s)>> : s \in Textos(MaxLen)}
      \cup {<<CandidatoComTipo(h)>> : h \in HintsModelo}

-----------------------------------------------------------------------------
(* avaliar_resultado *)

\* A score is the exact rational  a/n + 3*V*u^2 / (10^10 * n * (n-1)) : a/n
\* is the sum of the volume, date-span and balance terms, and V = n*Sum(c^2) -
\* Sum(c)^2 over the amounts c counted in units of u centavos, so that
\* V*u^2 / (10^4 * n * (n-1)) is Series.var() in R$^2 and 3e-6 times it is the
\* variance term (V = 0 and the factor n-1 is 1 when there is one row).  The
\* unit u is 1 centavo, or Mil centavos when every amount of the table is a
\* multiple of R$ 1.000,00.  The Python floats are these rationals up to
\* rounding.
Mil == 100000
Pontos(a, n, V, u) == [a |-> a, n |-> n, V |-> V, u |-> u]

ScoreZero == Pontos(0, 1, 0, 1)              \* 0.0
ScoreInicial == Pontos(-1, 1, 0, 1)          \* -1.0

RECURSIVE Soma(_, _)
Soma(f, k) == IF k = 0 THEN 0 ELSE f[k] + Soma(f, k - 1)

Abs(x) == IF x < 0 THEN 0 - x ELSE x

\* The score with the date span counted exclusively (max - min, without + 1)
avaliar_resultado_sem_inclusivo(tabela) ==
    IF Len(tabela.rows) = 0 THEN ScoreZero
    ELSE
      LET r == tabela.rows
          num_linhas == Len(r)
          dmax == CHOOSE x \in {r[j].Data_dt : j \in 1..num_linhas} :
                      \A j \in 1..num_linhas : r[j].Data_dt <= x
          dmin == CHOOSE x \in {r[j].Data_dt : j \in 1..num_linhas} :
                      \A j \in 1..num_linhas : r[j].Data_dt >= x
          nD == Cardinality({j \in 1..num_linhas : r[j].Tipo = "D"})
          nC == Cardinality({j \in 1..num_linhas : r[j].Tipo = "C"})
          u == IF \A j \in 1..num_linhas : r[j].Valor % Mil = 0 THEN Mil ELSE 1
          sc == Soma([j \in 1..num_linhas |-> r[j].Valor \div u], num_linhas)
          sq == Soma([j \in 1..num_linhas |->
                         (r[j].Valor \div u) * (r[j].Valor \div u)], num_linhas)
      IN  Pontos(10 * num_linhas * num_linhas
                   + 5 * (dmax - dmin) * num_linhas
                   + 50 * (num_linhas - Abs(nD - nC)),
                 num_linhas,
                 IF num_linhas > 1 THEN num_linhas * sq - sc * sc ELSE 0,
                 u)

\* The score with the volume weight divided by the row count instead of
\* multiplied by it (10 / rows)
avaliar_resultado_por_linha(tabela) ==
    IF Len(tabela.rows) = 0 THEN ScoreZero
    ELSE
      LET r == tabela.rows
          num_linhas == Len(r)
          dmax == CHOOSE x \in {r[j].Data_dt : j \in 1..num_linhas} :
                      \A j \in 1..num_linhas : r[j].Data_dt <= x
          dmin == CHOOSE x \in {r[j].Data_dt : j \in 1..num_linhas} :
                      \A j \in 1..num_linhas : r[j].Data_dt >= x
          nD == Cardinality({j \in 1..num_linhas : r[j].Tipo = "D"})
          nC == Cardinality({j \in 1..num_linhas : r[j].Tipo = "C"})
          u == IF \A j \in 1..num_linhas : r[j].Valor % Mil = 0 THEN Mil ELSE 1
          sc == Soma([j \in 1..num_linhas |-> r[j].Valor \div u], num_linhas)
          sq == Soma([j \in 1..num_linhas |->
                         (r[j].Valor \div u) * (r[j].Valor \div u)], num_linhas)
      IN  Pontos(10
                   + 5 * (dmax - dmin + 1) * num_linhas
                   + 50 * (num_linhas - Abs(nD - nC)),
                 num_linhas,
                 IF num_linhas > 1 THEN num_linhas * sq - sc * sc ELSE 0,
                 u)

avaliar_resultado(tabela) ==
    IF Len(tabela.rows) = 0 THEN ScoreZero
    ELSE
      LET r == tabela.rows
          num_linhas == Len(r)
          temData == \E k \in 1..Len(tabela.cols) : tabela.cols[k] = "Data_dt"
          dmax == CHOOSE x \in {r[j].Data_dt : j \in 1..num_linhas} :
                      \A j \in 1..num_linhas : r[j].Data_dt <= x
          dmin == CHOOSE x \in {r[j].Data_dt : j \in 1..num_linhas} :
                      \A j \in 1..num_linhas : r[j].Data_dt >= x
          dias_cobertos == IF temData THEN dmax - dmin + 1 ELSE 0
          nD == Cardinality({j \in 1..num_linhas : r[j].Tipo = "D"})
          nC == Cardinality({j \in 1..num_linhas : r[j].Tipo = "C"})
          u == IF \A j \in 1..num_linhas : r[j].Valor % Mil = 0 THEN Mil ELSE 1
          sc == Soma([j \in 1..num_linhas |-> r[j].Valor \div u], num_linhas)
          sq == Soma([j \in 1..num_linhas |->
                         (r[j].Valor \div u) * (r[j].Valor \div u)], num_linhas)
      IN  Pontos(10 * num_linhas * num_linhas
                   + 5 * dias_cobertos * num_linhas
                   + 50 * (num_linhas - Abs(nD - nC)),
                 num_linhas,
                 IF num_linhas > 1 THEN num_linhas * sq - sc * sc ELSE 0,
                 u)

\* s1 - s2, multiplied by the positive n1*n2*(n1-1)*(n2-1), is
\* Alto + Baixo / 10^10 : the variance of a table in units of Mil centavos
\* enters Alto, that of a table in centavos enters Baixo
Alto(s1, s2) ==
    LET m1 == IF s1.n > 1 THEN s1.n - 1 ELSE 1
        m2 == IF s2.n > 1 THEN s2.n - 1 ELSE 1
    IN  m1 * m2 * (s1.a * s2.n - s2.a * s1.n)
          + (IF s1.u = Mil THEN 3 * s1.V * s2.n * m2 ELSE 0)
          - (IF s2.u = Mil THEN 3 * s2.V * s1.n * m1 ELSE 0)

Baixo(s1, s2) ==
    LET m1 == IF s1.n > 1 THEN s1.n - 1 ELSE 1
        m2 == IF s2.n > 1 THEN s2.n - 1 ELSE 1
    IN  (IF s1.u = 1 THEN 3 * s1.V * s2.n * m2 ELSE 0)
          - (IF s2.u = 1 THEN 3 * s2.V * s1.n * m1 ELSE 0)

\* s1 >= s2 (the comparison a loop written with >= would make)
MaiorOuIgual(s1, s2) ==
    Alto(s1, s2) >= 0 - ((Baixo(s1, s2) \div 100000) \div 100000)

\* s1 > s2:  Alto * 10^10 > -Baixo, the right side evaluated by two floor
\* divisions by 10^5
Maior(s1, s2) ==
    Alto(s1, s2) > ((0 - Baixo(s1, s2)) \div 100000) \div 100000

-----------------------------------------------------------------------------
(* processar_extrato_universal *)

PROCESSADORES ==
    <<"BB", "ITAU", "BRADESCO", "SANTANDER", "CAIXA", "XP", "SICOOB", "BNB",
      "NUBANK", "INTER", "SAFRA", "GENERICO">>

NumProcessadores == Len(PROCESSADORES)

\* DataFrame.drop(columns=[col])
drop(tabela, col) ==
    [cols |-> SelectSeq(tabela.cols, LAMBDA c : c # col),
     rows |-> [j \in 1..Len(tabela.rows) |->
                  [f \in (DOMAIN tabela.rows[j]) \ {col} |-> tabela.rows[j][f]]]]

\* What an extractor can hand back for the text: candidate lists of the model
D0103 == <<"0", "1", "/", "0", "3", "/", "2", "0", "2", "4">>
D0203 == <<"0", "2", "/", "0", "3", "/", "2", "0", "2", "4">>

Cand(d, h, v, t) == [Data |-> d, Historico |-> h, Valor |-> StrV(v), Tipo |-> t]

SaidaVazia == <<>>
SaidaUma == <<Cand(D0103, "TARIFA", <<"1", "5", ",", "9", "0">>, <<"D">>)>>
SaidaDuasA ==
    <<Cand(D0203, "PIX RECEBIDO", <<"1", "0", ",", "0", "0">>, <<"C">>),
      Cand(D0103, "TARIFA", <<"-", "5", ",", "0", "0">>, <<"D">>)>>
SaidaDuasB ==
    <<Cand(D0103, "PIX", <<"R", "$", " ", "5", ",", "0", "0">>, <<"C">>),
      Cand(D0203, "TED", <<"1", "0", ",", "0", "0">>, <<"D">>)>>

SaidasModelo == {SaidaVazia, SaidaUma, SaidaDuasA, SaidaDuasB}

\* normalizar_transacoes and avaliar_resultado on each of these lists
Normalizadas == [s \in SaidasModelo |-> normalizar_transacoes(s)]
Avaliadas ==
    [s \in SaidasModelo |-> [r \in Normalizadas[s] |-> avaliar_resultado(r[1])]]

InitS0 ==
    /\ linhaS = <<>>
    /\ sujo = FALSE
    /\ pcS = "parado"

InitA0 ==
    /\ tabS = NoTable
    /\ subS = NoTable
    /\ scoreS = ScoreInicial
    /\ scoreSub = ScoreInicial
    /\ pcA = "parado"

SemCenario == [posA |-> 0, posB |-> 0, vC |-> 0, vD |-> 0, vB |-> 0]

InitC0 == cenario = SemCenario

InitT0 ==
    /\ extrato = <<>>
    /\ fontes = {}

InitL0 ==
    /\ banco = "NENHUM"
    /\ formato = 0
    /\ pos = 0
    /\ estado = [trans |-> <<>>, current_date |-> None, buffer |-> <<>>]
    /\ ultimo = [lida |-> 0,
                 antes |-> [trans |-> <<>>, current_date |-> None, buffer |-> <<>>]]
    /\ devolvido = <<>>
    /\ normal = NoTable
    /\ pcL = "parado"

InitP0 ==
    /\ pendentes = {}
    /\ resultados = <<>>

InitB0 ==
    /\ df_transacoes = <<>>
    /\ n_batches = 0
    /\ lote = 0
    /\ enviados = <<>>
    /\ respostas = <<>>
    /\ dados_classificados_lote = <<>>
    /\ pcB = "parado"

InitX0 == InitS0 /\ InitA0 /\ InitC0 /\ InitT0 /\ InitL0 /\ InitP0 /\ InitB0

InitN0 ==
    /\ transacoes = <<>>
    /\ df = NoTable
    /\ origem = <<>>
    /\ df2 = NoTable
    /\ origem2 = <<>>
    /\ pcN = "parado"

\* The state after lines 570-572
Init ==
    /\ idx = 1
    /\ melhor_df = DataFrameVazio
    /\ melhor_score = ScoreInicial
    /\ melhor_processador = "NENHUM"
    /\ falha = "nenhuma"
    /\ primeiro = [s \in SaidasModelo |-> 0]
    /\ alguma_falha = FALSE
    /\ retorno = NoTable
    /\ pc = "loop"
    /\ InitN0
    /\ InitX0

Avanca ==
    /\ idx' = idx + 1
    /\ pc' = IF idx = NumProcessadores THEN "fim" ELSE "loop"

\* The iteration with the comparison written >= : a later extractor with an
\* equal score replaces the best one
Iteracao_empate ==
    /\ pc = "loop"
    /\ \E saida \in SaidasModelo :
         \E r \in Normalizadas[saida] :
           LET df_atual == r[1]
               score_atual == Avaliadas[saida][r]
           IN  /\ IF MaiorOuIgual(score_atual, melhor_score)
                  THEN /\ melhor_score' = score_atual
                       /\ melhor_df' = df_atual
                       /\ melhor_processador' = PROCESSADORES[idx]
                  ELSE UNCHANGED <<melhor_score, melhor_df, melhor_processador>>
               /\ primeiro' = IF primeiro[saida] = 0
                              THEN [primeiro EXCEPT ![saida] = idx]
                              ELSE primeiro
    /\ falha' = "nenhuma"
    /\ Avanca
    /\ UNCHANGED <<alguma_falha, retorno>>
    /\ UNCHANGED varsN
    /\ UNCHANGED varsX

\* One iteration whose try block runs to its end (lines 576-591)
Iteracao ==
    /\ pc = "loop"
    /\ \E saida \in SaidasModelo :
         \E r \in Normalizadas[saida] :
           LET df_atual == r[1]
               score_atual == Avaliadas[saida][r]
           IN  /\ IF Maior(score_atual, melhor_score)
                  THEN /\ melhor_score' = score_atual
                       /\ melhor_df' = df_atual
                       /\ melhor_processador' = PROCESSADORES[idx]
                  ELSE UNCHANGED <<melhor_score, melhor_df, melhor_processador>>
               /\ primeiro' = IF primeiro[saida] = 0
                              THEN [primeiro EXCEPT ![saida] = idx]
                              ELSE primeiro
    /\ falha' = "nenhuma"
    /\ Avanca
    /\ UNCHANGED <<alguma_falha, retorno>>
    /\ UNCHANGED varsN
    /\ UNCHANGED varsX

\* An iteration that leaves through the except branch (lines 595-597)
Excecao(ponto) ==
    /\ pc = "loop"
    /\ falha' = ponto
    /\ alguma_falha' = TRUE
    /\ Avanca
    /\ UNCHANGED <<melhor_df, melhor_score, melhor_processador, primeiro, retorno>>
    /\ UNCHANGED varsN
    /\ UNCHANGED varsX

\* A failed iteration that ends the loop instead of continuing
FalhaExtrator_aborta ==
    /\ pc = "loop"
    /\ falha' = "extrator"
    /\ alguma_falha' = TRUE
    /\ idx' = idx + 1
    /\ pc' = "fim"
    /\ UNCHANGED <<melhor_df, melhor_score, melhor_processador, primeiro, retorno>>
    /\ UNCHANGED varsN
    /\ UNCHANGED varsX

\* A failed iteration that records its extractor as the best one
FalhaExtrator_registra ==
    /\ pc = "loop"
    /\ falha' = "extrator"
    /\ alguma_falha' = TRUE
    /\ melhor_processador' = PROCESSADORES[idx]
    /\ Avanca
    /\ UNCHANGED <<melhor_df, melhor_score, primeiro, retorno>>
    /\ UNCHANGED varsN
    /\ UNCHANGED varsX

\* processador(texto) raises (line 578)
FalhaExtrator == Excecao("extrator")

\* normalizar_transacoes raises (line 581)
FalhaNormalizar == Excecao("normalizar")

\* avaliar_resultado raises (line 584)
FalhaAvaliar == Excecao("avaliar")

\* Lines 599-605: drop the auxiliary column of a non-empty table and return
Finalizar ==
    /\ pc = "fim"
    /\ melhor_df' = IF Len(melhor_df.rows) > 0
                       /\ \E k \in 1..Len(melhor_df.cols) : melhor_df.cols[k] = "Data_dt"
                    THEN drop(melhor_df, "Data_dt")
                    ELSE melhor_df
    /\ retorno' = melhor_df'
    /\ pc' = "retornou"
    /\ UNCHANGED <<idx, melhor_score, melhor_processador, falha, primeiro, alguma_falha>>
    /\ UNCHANGED varsN
    /\ UNCHANGED varsX

Next ==
    \/ Iteracao
    \/ FalhaExtrator
    \/ FalhaNormalizar
    \/ FalhaAvaliar
    \/ Finalizar

Spec == Init /\ [][Next]_vars

-----------------------------------------------------------------------------
(* Properties of processar_extrato_universal (checked under Spec) *)

\* The extractor outputs returned so far by iterations that did not raise
Vistos == {s \in SaidasModelo : primeiro[s] > 0}

PrimeiraDe == [s \in SaidasModelo |-> CHOOSE r \in Normalizadas[s] : TRUE]
TabelaDe(s) == PrimeiraDe[s][1]
ScoreDe(s) == Avaliadas[s][PrimeiraDe[s]]

\* The four fields of the rows of a table
Quatro(tabela) ==
    [j \in 1..Len(tabela.rows) |->
        [Data |-> tabela.rows[j].Data, Historico |-> tabela.rows[j].Historico,
         Valor |-> tabela.rows[j].Valor, Tipo |-> tabela.rows[j].Tipo]]

\* The outputs of maximal score among those seen
Maximos == {s \in Vistos : \A t \in Vistos : ~Maior(ScoreDe(t), ScoreDe(s))}

\* C1: the best table is the normalized output of the extractor of maximum
\* score among those that did not raise, the earliest in PROCESSADORES order
\* among equals; this holds of the accumulator after every iteration and of
\* the returned table.
C1_MelhorEPrimeiro ==
    Vistos # {} =>
        \E s \in Maximos :
            /\ \A t \in Maximos : primeiro[s] <= primeiro[t]
            /\ melhor_processador = PROCESSADORES[primeiro[s]]
            /\ Quatro(melhor_df) = Quatro(TabelaDe(s))
            /\ pc = "retornou" => Quatro(retorno) = Quatro(TabelaDe(s))

C1_Witness ==
    /\ pc = "retornou"
    /\ primeiro[SaidaUma] = 1
    /\ primeiro[SaidaDuasB] = 3
    /\ primeiro[SaidaDuasA] = 5
    /\ melhor_processador = "BRADESCO"
    /\ Len(retorno.rows) = 2

\* C2: if every registered extractor produces an empty table, the returned
\* table is empty and the winning label is NENHUM.
C2_TodosVaziosNenhum ==
    (/\ pc = "retornou"
     /\ ~alguma_falha
     /\ \A s \in Vistos : Len(TabelaDe(s).rows) = 0)
        => /\ Len(retorno.rows) = 0
           /\ melhor_processador = "NENHUM"

\* C3: if every extractor raises, the run still returns, with an empty table
\* and the label NENHUM.
C3_TodosFalham ==
    /\ (pc = "fim" /\ Vistos = {}) => ENABLED Finalizar
    /\ (pc = "retornou" /\ Vistos = {}) =>
          /\ idx = NumProcessadores + 1
          /\ retorno = DataFrameVazio
          /\ melhor_processador = "NENHUM"

C3_Witness ==
    /\ pc = "retornou"
    /\ Vistos = {}
    /\ alguma_falha
    /\ retorno = DataFrameVazio

\* C4: an iteration that raises leaves the best-so-far table, score and
\* label unchanged and the loop goes on to the next extractor; the label only
\* ever changes to the extractor of an iteration that did not raise, so a
\* failed extractor is never the winner; the run returns only after all
\* extractors were run.
C4_FalhaContida ==
    [][ /\ (falha' # "nenhuma" /\ idx' = idx + 1) =>
              /\ melhor_df' = melhor_df
              /\ melhor_score' = melhor_score
              /\ melhor_processador' = melhor_processador
              /\ melhor_processador' # PROCESSADORES[idx]
              /\ (idx < NumProcessadores => pc' = "loop")
        /\ (melhor_processador' # melhor_processador) =>
              (falha' = "nenhuma" /\ melhor_processador' = PROCESSADORES[idx])
        /\ (pc' = "retornou") => (idx' = NumProcessadores + 1) ]_vars

C4_Witness ==
    /\ pc = "retornou"
    /\ alguma_falha
    /\ falha = "nenhuma"
    /\ melhor_processador = "GENERICO"
    /\ primeiro[SaidaDuasA] = NumProcessadores
    /\ primeiro[SaidaUma] = 1

-----------------------------------------------------------------------------
(* normalizar_transacoes as a state machine: one call, then a second call on
   the rows the first one returned *)

InitU0 ==
    /\ idx = 1
    /\ melhor_df = DataFrameVazio
    /\ melhor_score = ScoreInicial
    /\ melhor_processador = "NENHUM"
    /\ falha = "nenhuma"
    /\ primeiro = [s \in SaidasModelo |-> 0]
    /\ alguma_falha = FALSE
    /\ retorno = NoTable
    /\ pc = "parado"

InitNorm ==
    /\ transacoes \in EntradasNormalizador
    /\ df = NoTable
    /\ origem = <<>>
    /\ df2 = NoTable
    /\ origem2 = <<>>
    /\ pcN = "inicio"
    /\ InitU0
    /\ InitX0

Normalizar ==
    /\ pcN = "inicio"
    /\ \E r \in normalizar_transacoes(transacoes) :
          /\ df' = r[1]
          /\ origem' = r[2]
    /\ pcN' = "normalizado"
    /\ UNCHANGED <<transacoes, df2, origem2>>
    /\ UNCHANGED varsU
    /\ UNCHANGED varsX

Renormalizar ==
    /\ pcN = "normalizado"
    /\ \E r \in normalizar_transacoes(Realimentar(df)) :
          /\ df2' = r[1]
          /\ origem2' = r[2]
    /\ pcN' = "renormalizado"
    /\ UNCHANGED <<transacoes, df, origem>>
    /\ UNCHANGED varsU
    /\ UNCHANGED varsX

NextNorm == Normalizar \/ Renormalizar

SpecNorm == InitNorm /\ [][NextNorm]_vars

-----------------------------------------------------------------------------
(* Properties of normalizar_transacoes (checked under SpecNorm) *)

Normalizou == pcN # "inicio"

SemSinal(s) == replace(s, <<"-">>, <<>>)

\* parse_amount of a candidate's amount text, as a float or None
Nulo == [ok |-> FALSE, v |-> 0]

parse_amount(s) ==
    IF clean_value_str(s) = None THEN Nulo
    ELSE [ok |-> TRUE, v |-> astype_float(clean_value_str(s))]

\* Years of the model's date texts
AnosModelo == 2020..2025

Dois(n) == IF n < 10 THEN <<"0">> \o NatStr(n) ELSE NatStr(n)

\* Every text that writes a day of the calendar as day/month/4-digit year,
\* each of day and month with or without its leading zero
CalendarioModelo ==
    UNION { UNION { UNION { { sd \o <<"/">> \o sm \o <<"/">> \o NatStr(y) :
                                sd \in {NatStr(d), Dois(d)}, sm \in {NatStr(m), Dois(m)} } :
                            d \in 1..DiasNoMes(m, y) } :
                    m \in 1..12 } :
            y \in AnosModelo }

DataDeCalendario(s) == s \in CalendarioModelo

\* C5: feeding the rows of a returned table back into normalizar_transacoes
\* yields the same table (same rows, same amounts).
C5_Idempotente ==
    pcN = "renormalizado" => df2.rows = df.rows

\* C6: rows with the same date keep the relative order their candidates had
\* in the input sequence.
C6_Estavel ==
    Normalizou =>
        \A j, k \in 1..Len(df.rows) :
            (j < k /\ df.rows[j].Data_dt = df.rows[k].Data_dt)
                => origem[j] < origem[k]

\* C7: in every returned table, adjacent rows are in ascending date order.
C7_Ordenado ==
    Normalizou =>
        \A j \in 1..(Len(df.rows) - 1) :
            /\ to_datetime(df.rows[j].Data) # NaT
            /\ to_datetime(df.rows[j].Data) <= to_datetime(df.rows[j + 1].Data)

C7_Witness ==
    /\ Normalizou
    /\ Len(df.rows) = 2
    /\ origem[1] > origem[2]
    /\ df.rows[1].Data_dt < df.rows[2].Data_dt

C10_FiltragemMonotona ==
    Normalizou =>
        /\ Len(df.rows) <= Len(transacoes)
        /\ Len(origem) = Len(df.rows)
        /\ \A j \in 1..Len(origem) :
              /\ origem[j] \in 1..Len(transacoes)
              /\ df.rows[j].Data = transacoes[origem[j]].Data
              /\ df.rows[j].Historico = transacoes[origem[j]].Historico
              /\ df.rows[j].Tipo = tipo_de(transacoes[origem[j]].Tipo)
        /\ \A j, k \in 1..Len(origem) : j # k => origem[j] # origem[k]

C10_Witness ==
    /\ Normalizou
    /\ Len(transacoes) = 3
    /\ Len(df.rows) = 2

-----------------------------------------------------------------------------
(* Regular expressions of the re module.  A pattern is a tree of records; *)
(* re_ends lists, in the order the backtracking matcher tries them, the    *)
(* ways the pattern matches s from position i: the position after the      *)
(* match and the spans of the capture groups.                              *)

MaxGrupos == 4           \* most capture groups in one pattern of the source

SemGrupos == [k \in 1..MaxGrupos |-> <<0, 0>>]

Um(conjunto) == [t |-> "set", s |-> conjunto]           \* one character of a class
Menos(conjunto) == [t |-> "nset", s |-> conjunto]       \* [^...] and .
Ponto == Menos({NL})                                   \* .
Cat2(a, b) == [t |-> "cat", a |-> a, b |-> b]
Ou2(a, b) == [t |-> "alt", a |-> a, b |-> b]
Rep(a, lo, hi) == [t |-> "rep", a |-> a, lo |-> lo, hi |-> hi, lazy |-> FALSE]
RepLazy(a, lo, hi) == [t |-> "rep", a |-> a, lo |-> lo, hi |-> hi, lazy |-> TRUE]
Inf == -1                                                \* no upper limit of a repetition
Opt(a) == Rep(a, 0, 1)                                   \* a?
Star(a) == Rep(a, 0, Inf)                                \* a*
Plus(a) == Rep(a, 1, Inf)                                \* a+
WB == [t |-> "wb"]                                       \* \b
Bol == [t |-> "bol"]                                     \* ^
Eol == [t |-> "eol"]                                     \* $
NegLook(a) == [t |-> "neg", a |-> a]                     \* (?!a)
Grp(k, a) == [t |-> "grp", k |-> k, a |-> a]             \* the k-th ( )
Vazio == [t |-> "eps"]

RECURSIVE Cat(_)
Cat(rs) == IF Len(rs) = 0 THEN Vazio
           ELSE IF Len(rs) = 1 THEN rs[1] ELSE Cat2(rs[1], Cat(Tail(rs)))

RECURSIVE Ou(_)
Ou(rs) == IF Len(rs) = 1 THEN rs[1] ELSE Ou2(rs[1], Ou(Tail(rs)))

\* a literal string
Lit(str) == Cat([i \in 1..Len(str) |-> Um({SubSeq(str, i, i)})])

\* a literal string under re.IGNORECASE
LitI(str) ==
    Cat([i \in 1..Len(str) |->
            Um({lower_char(SubSeq(str, i, i)), upper_char(SubSeq(str, i, i))})])

Dg == Um(Digitos)                                        \* \d
Ws == Um(Brancos)                                        \* \s

EPalavra(s, i) == i >= 1 /\ i <= Len(s) /\ s[i] \in CharPalavra

RECURSIVE re_ends(_, _, _, _), re_ends_seq(_, _, _), re_grupo(_, _, _)
re_ends(r, s, i, g) ==
    CASE r.t = "set" ->
           IF i <= Len(s) /\ s[i] \in r.s THEN <<[e |-> i + 1, g |-> g]>> ELSE <<>>
      [] r.t = "nset" ->
           IF i <= Len(s) /\ s[i] \notin r.s THEN <<[e |-> i + 1, g |-> g]>> ELSE <<>>
      [] r.t = "eps" -> <<[e |-> i, g |-> g]>>
      [] r.t = "cat" -> re_ends_seq(r.b, s, re_ends(r.a, s, i, g))
      [] r.t = "alt" -> re_ends(r.a, s, i, g) \o re_ends(r.b, s, i, g)
      [] r.t = "rep" ->
           LET mais == IF r.hi = 0 THEN <<>>
                       ELSE re_ends_seq(
                              [r EXCEPT !.lo = IF r.lo > 0 THEN r.lo - 1 ELSE 0,
                                        !.hi = IF r.hi > 0 THEN r.hi - 1 ELSE r.hi],
                              s,
                              SelectSeq(re_ends(r.a, s, i, g),
                                        LAMBDA x : x.e > i \/ r.lo > 0))
               para == IF r.lo = 0 THEN <<[e |-> i, g |-> g]>> ELSE <<>>
           IN  IF r.lazy THEN para \o mais ELSE mais \o para
      [] r.t = "wb" ->
           IF EPalavra(s, i - 1) # EPalavra(s, i) THEN <<[e |-> i, g |-> g]>> ELSE <<>>
      [] r.t = "bol" -> IF i = 1 THEN <<[e |-> i, g |-> g]>> ELSE <<>>
      [] r.t = "eol" ->
           IF i = Len(s) + 1 \/ (i = Len(s) /\ s[i] = NL)
           THEN <<[e |-> i, g |-> g]>> ELSE <<>>
      [] r.t = "neg" ->
           IF re_ends(r.a, s, i, g) = <<>> THEN <<[e |-> i, g |-> g]>> ELSE <<>>
      [] r.t = "grp" -> re_grupo(r.k, i, re_ends(r.a, s, i, g))

re_ends_seq(r, s, xs) ==
    IF Len(xs) = 0 THEN <<>>
    ELSE re_ends(r, s, xs[1].e, xs[1].g) \o re_ends_seq(r, s, Tail(xs))

re_grupo(k, i, xs) ==
    [j \in 1..Len(xs) |-> [e |-> xs[j].e, g |-> [xs[j].g EXCEPT ![k] = <<i, xs[j].e>>]]]

\* A match object: ok, start and end positions (end exclusive), group spans
SemMatch == [ok |-> FALSE, ini |-> 0, fim |-> 0, g |-> SemGrupos]

\* re.match(r, s) restricted to the text from position i on
primeiro_fim(xs, i) ==
    IF Len(xs) = 0 THEN SemMatch
    ELSE [ok |-> TRUE, ini |-> i, fim |-> xs[1].e, g |-> xs[1].g]

re_match_em(r, s, i) == primeiro_fim(re_ends(r, s, i, SemGrupos), i)

re_match(r, s) == re_match_em(r, s, 1)

\* re.search(r, s) from position i on: the leftmost match
RECURSIVE re_search_de(_, _, _), ou_adiante(_, _, _, _)
re_search_de(r, s, i) ==
    IF i > Len(s) + 1 THEN SemMatch
    ELSE ou_adiante(re_match_em(r, s, i), r, s, i)

\* the match m found at position i, or else the search from i + 1 on
ou_adiante(m, r, s, i) == IF m.ok THEN m ELSE re_search_de(r, s, i + 1)

re_search(r, s) == re_search_de(r, s, 1)

\* What an expression evaluates to when it raises: a character no text holds,
\* which every string operation carries into its result
AttributeError == "<AttributeError>"     \* None.group(...), None.groups()
IndexError == "<IndexError>"             \* [][0]

\* m.group(k): the text of group k of a match (the "" of an unset group);
\* raises when m is None
grupo(m, s, k) == IF m.ok THEN SubSeq(s, m.g[k][1], m.g[k][2] - 1)
                  ELSE <<AttributeError>>

\* lista[k - 1] of Python; raises when the list is shorter
item(lista, k) == IF k <= Len(lista) THEN lista[k] ELSE <<IndexError>>

\* the text before / from the start of a match
ate(s, p) == SubSeq(s, 1, p - 1)
desde(s, p) == SubSeq(s, p, Len(s))

\* re.findall for a pattern with one group: the texts of group 1 of the
\* non-overlapping matches, left to right
RECURSIVE re_findall_de(_, _, _), e_os_seguintes(_, _, _)
re_findall_de(r, s, i) == e_os_seguintes(re_search_de(r, s, i), r, s)

\* group 1 of the match m, then those of the matches after it
e_os_seguintes(m, r, s) ==
    IF ~m.ok THEN <<>>
    ELSE <<SubSeq(s, m.g[1][1], m.g[1][2] - 1)>>
           \o re_findall_de(r, s, IF m.fim > m.ini THEN m.fim ELSE m.fim + 1)

re_findall(r, s) == re_findall_de(r, s, 1)

\* re.sub(r, "", s) and re.sub(r, " ", s): every non-overlapping match
\* replaced by novo
RECURSIVE re_sub_de(_, _, _, _), troca(_, _, _, _, _)
re_sub_de(r, novo, s, i) == troca(re_search_de(r, s, i), r, novo, s, i)

\* the text from i on with the match m, and the matches after it, replaced
troca(m, r, novo, s, i) ==
    IF ~m.ok THEN SubSeq(s, i, Len(s))
    ELSE IF m.fim > m.ini
         THEN SubSeq(s, i, m.ini - 1) \o novo \o re_sub_de(r, novo, s, m.fim)
         ELSE SubSeq(s, i, m.ini - 1) \o novo
                \o (IF m.ini <= Len(s) THEN <<s[m.ini]>> ELSE <<>>)
                \o re_sub_de(r, novo, s, m.ini + 1)

re_sub(r, novo, s) == re_sub_de(r, novo, s, 1)

\* sub in str; str.find(sub) (0 when absent, else the position from 1)
RECURSIVE find_de(_, _, _)
find_de(s, sub, i) ==
    IF i + Len(sub) - 1 > Len(s) THEN 0
    ELSE IF SubSeq(s, i, i + Len(sub) - 1) = sub THEN i ELSE find_de(s, sub, i + 1)

find(s, sub) == find_de(s, sub, 1)
contem(s, sub) == find(s, sub) > 0
startswith(s, sub) == Len(s) >= Len(sub) /\ SubSeq(s, 1, Len(sub)) = sub

\* " ".join(parts)
RECURSIVE join(_)
join(parts) ==
    IF Len(parts) = 0 THEN <<>>
    ELSE IF Len(parts) = 1 THEN parts[1]
    ELSE parts[1] \o <<" ">> \o join(Tail(parts))

-----------------------------------------------------------------------------
(* linha_parece_sujo *)

\* \bword\b
Palavra(str) == Cat(<<WB, Lit(str), WB>>)

\* (w1|w2|...)
Alt(strs) == Ou([k \in 1..Len(strs) |-> Lit(strs[k])])

excecoes_regex ==
    << Palavra("iof"),
       Cat(<<WB, Lit("juros"), WB, NegLook(Cat(<<Plus(Ws), Lit("morat")>>))>>),
       Palavra("tarifa"),
       Palavra("encargos"),
       Palavra("tributo"),
       Palavra("imposto"),
       Cat(<<WB, Lit("pagamento"), Plus(Ws), Opt(Cat(<<Lit("de"), Plus(Ws)>>)),
             Alt(<<"boleto", "conta", "fatura", "darf", "gps">>), WB>>),
       Cat(<<WB, Lit("transfer"), Um({"e", ECirc}), Lit("ncia"), Plus(Ws),
             Alt(<<"recebida", "enviada", "ted", "doc">>), WB>>),
       Cat(<<WB, Lit("pix"), Plus(Ws),
             Alt(<<"recebido", "enviado", "emit", "receb">>), WB>>),
       Cat(<<WB, Lit("ted"), Plus(Ws), Alt(<<"recebid", "enviad">>), WB>>),
       Cat(<<WB, Lit("doc"), Plus(Ws), Alt(<<"recebid", "enviad">>), WB>>),
       Cat(<<WB, Lit("cheque"), Plus(Ws), Alt(<<"compensado", "devolvido">>), WB>>),
       Cat(<<WB, Lit("c"), Um({"o", OAgudo}), Lit("digo"), Plus(Ws), Plus(Dg)>>),
       Cat(<<WB, Lit("deb"), Plus(Ws), Lit("conv"), WB>>),
       Cat(<<WB, Lit("deb"), Plus(Ws), Lit("tit"), WB>>),
       Cat(<<WB, Lit("deb"), Plus(Ws), Lit("parc"), WB>>) >>

CA == Cat(<<Um({"c", CCedilha}), Um({"a", ATil})>>)      \* [cç][aã]

padroes_lixo ==
    << Cat(<<WB, Lit("s"), Star(Ws), Lit("a"), Star(Ws), Lit("l"), Star(Ws),
             Lit("d"), Star(Ws), Lit("o"), WB>>),
       Cat(<<WB, Lit("saldo"), Star(Ws),
             Ou(<<Lit("anterior"),
                  Cat(<<Lit("do"), Plus(Ws), Lit("dia")>>),
                  Lit("total"), Lit("atual"), Lit("bloqueado"),
                  Cat(<<Lit("dispon"), Um({"i", IAgudo}), Lit("vel")>>),
                  Lit("parcial"), Lit("inicial"), Lit("final"),
                  Cat(<<Lit("em"), Plus(Ws), Lit("c/c")>>)>>),
             WB>>),
       Cat(<<WB, Lit("sdo"), Plus(Ws), Alt(<<"cta", "apl", "conta">>), WB>>),
       Palavra("detalhamento"),
       Palavra("extrato"),
       Palavra("cliente"),
       Cat(<<WB, Lit("conta"), Plus(Ws), Lit("corrente"), Star(Ws), Lit("|"),
             Star(Ws), Lit("movimenta")>>),
       Palavra("limite"),
       Palavra("investimentos"),
       Cat(<<WB, Lit("dispon"), Um({"i", IAgudo}), Lit("vel"), WB>>),
       Palavra("bloqueado"),
       Cat(<<Bol, Star(Ws), Lit("total"), Star(Ws), Opt(Lit("r")), Star(Ws),
             Opt(Lit("$")), Star(Ws), Plus(Um(Digitos \cup {".", ","})),
             Star(Ws), Eol>>),
       Cat(<<WB, Lit("total"), Plus(Ws), Opt(Cat(<<Lit("de"), Plus(Ws)>>)),
             Ou(<<Lit("entradas"),
                  Cat(<<Lit("sa"), Um({"i", IAgudo}), Lit("das")>>),
                  Cat(<<Lit("cr"), Um({EAgudo, "e"}), Lit("ditos")>>),
                  Cat(<<Lit("d"), Um({EAgudo, "e"}), Lit("bitos")>>)>>),
             WB>>),
       Palavra("resumo"),
       Cat(<<WB, Lit("fale"), Star(Ws), Lit("conosco"), WB>>),
       Palavra("ouvidoria"),
       Cat(<<WB, Lit("para"), Plus(Ws), Lit("demais"), Plus(Ws), Lit("siglas"), WB>>),
       Cat(<<WB, Lit("notas"), Plus(Ws), Lit("explicativas"), WB>>),
       Palavra("totalizador"),
       Cat(<<WB, Lit("aplica"), Um({CCedilha}), Um({OTil}), Lit("es"), Plus(Ws),
             Lit("autom"), Um({AAgudo}), Lit("ticas"), WB>>),
       Cat(<<WB, Lit("valor"), Plus(Ws), Lit("(r$)"), WB>>),
       Palavra("documento"),
       Cat(<<WB, Lit("descri"), CA, Lit("o"), WB>>),
       Cat(<<WB, Lit("cr"), Um({"e", EAgudo}), Lit("ditos"), WB>>),
       Cat(<<WB, Lit("d"), Um({"e", EAgudo}), Lit("bitos"), WB>>),
       Cat(<<WB, Lit("movimenta"), CA, Lit("o"), WB>>),
       Cat(<<WB, Lit("p"), Um({"a", AAgudo}), Lit("gina"), WB>>),
       Cat(<<WB, Lit("data"), Plus(Ws), Lit("lan"), Um({"c", CCedilha}),
             Lit("amento"), WB>>),
       Palavra("complemento"),
       Cat(<<WB, Lit("central"), Plus(Ws), Lit("de"), Plus(Ws), Lit("suporte"), WB>>),
       Cat(<<WB, Lit("conta"), Plus(Ws), Lit("corrente"), Star(Ws), Lit("|"),
             Star(Ws), Lit("movimenta"), CA, Lit("o"), WB>>),
       Cat(<<WB, Lit("valores"), Plus(Ws), Lit("em"), Plus(Ws), Lit("r$"), WB>>),
       Cat(<<WB, Lit("per"), Um({"i", IAgudo}), Lit("odo"), Plus(Ws), Lit("de"), WB>>),
       Cat(<<WB, Lit("saldo"), Star(Ws), Lit("+"), Star(Ws), Lit("limite"), WB>>),
       Cat(<<WB, Lit("cobran"), Um({"c", CCedilha}), Lit("a"), Plus(Ws), Lit("d"),
             Um({"0", "1"}), WB>>),
       Cat(<<WB, Lit("cheque"), Plus(Ws), Lit("empresarial"), WB>>),
       Cat(<<WB, Lit("vencimento"), Plus(Ws), Lit("cheque"), WB>>) >>

\* any(re.search(p, texto, re.IGNORECASE) for p in lista), on a lowercase text
AlgumCasa(lista, texto) ==
    \E k \in 1..Len(lista) : re_search(lista[k], texto).ok

\* The classifier with the junk patterns tried first: a junk match decides
\* before any exception is looked at
linha_parece_sujo_lixo_primeiro(l) ==
    IF Len(l) = 0 THEN TRUE
    ELSE AlgumCasa(padroes_lixo, lower(strip(l)))

linha_parece_sujo(l) ==
    IF Len(l) = 0 THEN TRUE
    ELSE LET texto == lower(strip(l))
         IN  IF AlgumCasa(excecoes_regex, texto) THEN FALSE
             ELSE AlgumCasa(padroes_lixo, texto)

-----------------------------------------------------------------------------
(* linha_parece_sujo as a state machine: one call on one line *)

MaxPalavras == 2         \* most words (or whitespace characters) of a drawn line

PalavrasModelo ==
    { Chars("TARIFA"), Chars("SALDO"), Chars("juros"), Chars("moratorios"),
      Chars("Extrato"), Chars("PIX RECEBIDO"), Chars("Total"), Chars("1.000,00") }

\* The drawn lines: up to MaxPalavras words separated by one space, and the
\* texts of up to MaxPalavras whitespace characters
LinhasSujo ==
    UNION { {join(ws) : ws \in [1..k -> PalavrasModelo]}
              \cup [1..k -> Brancos] : k \in 0..MaxPalavras }

InitSujo ==
    /\ linhaS \in LinhasSujo
    /\ sujo = FALSE
    /\ pcS = "inicio"
    /\ InitN0
    /\ InitU0
    /\ InitA0
    /\ InitC0
    /\ InitT0
    /\ InitL0
    /\ InitP0
    /\ InitB0

Classificar ==
    /\ pcS = "inicio"
    /\ sujo' = linha_parece_sujo(linhaS)
    /\ pcS' = "classificado"
    /\ UNCHANGED linhaS
    /\ UNCHANGED varsN
    /\ UNCHANGED varsU
    /\ UNCHANGED varsA
    /\ UNCHANGED <<cenario, varsT, varsL, varsP, varsB>>

NextSujo == Classificar

SpecSujo == InitSujo /\ [][NextSujo]_vars

-----------------------------------------------------------------------------
(* Properties of linha_parece_sujo (checked under SpecSujo) *)

Classificou == pcS = "classificado"

\* The line, as the patterns see it, matches a pattern of the list
CasaExcecao(l) == \E k \in 1..Len(excecoes_regex) :
                      re_search(excecoes_regex[k], lower(strip(l))).ok
CasaLixo(l) == \E k \in 1..Len(padroes_lixo) :
                   re_search(padroes_lixo[k], lower(strip(l))).ok

SoBrancos(l) == \A i \in 1..Len(l) : l[i] \in Brancos

\* C12: for every line that matches at least one exception pattern and at
\* least one junk pattern, linha_parece_sujo returns false.
C12_ExcecaoVence ==
    (Classificou /\ CasaExcecao(linhaS) /\ CasaLixo(linhaS)) => sujo = FALSE

C12_Witness ==
    /\ Classificou
    /\ linhaS = Chars("SALDO TARIFA")
    /\ CasaExcecao(linhaS)
    /\ CasaLixo(linhaS)
    /\ sujo = FALSE

\* C13: linha_parece_sujo returns true for the empty string and for every
\* input consisting only of whitespace.
C13_BrancoESujo ==
    (Classificou /\ SoBrancos(linhaS)) => sujo = TRUE

-----------------------------------------------------------------------------
(* Properties of clean_value_str and of the direction hint (checked under
   SpecNorm) *)

\* The text after removing the currency marker, the spaces, the sign markers
\* and the thousands separators and rewriting ',' to '.'
Transformado(s) ==
    replace(replace(replace(replace(replace(replace(strip(s),
        <<"R", "$">>, <<>>), <<NBSP>>, <<>>), <<" ">>, <<>>),
        <<"-">>, <<>>), <<".">>, <<>>), <<",">>, <<".">>)

\* C14: parse_amount returns a value exactly when the transformed text is
\* one or more digits optionally followed by '.' and 1 or 2 digits, and
\* null otherwise; "1.234,5" parses to 1234.5 and "12,345" returns null.
C14_AceitaExatamente ==
    Normalizou =>
        \A i \in 1..Len(transacoes) :
            LET s == transacoes[i].Valor.v
            IN  /\ (parse_amount(s) # Nulo) <=> NumeroInteiro(Transformado(s))
                /\ s = Chars("1.234,5") => parse_amount(s) = [ok |-> TRUE, v |-> 123450]
                /\ s = Chars("12,345") => parse_amount(s) = Nulo

\* The hint's text starts with 'd' or 'D'
ComecaComD(h) == h # None /\ Len(h) > 0 /\ h[1] \in {"d", "D"}

\* C15: every row's direction is exactly C or D: D when the candidate's hint
\* starts with 'd' or 'D', and C for every other hint (a missing hint, a '-'
\* marker, a keyword such as "enviado").
C15_TipoCouD ==
    Normalizou =>
        \A j \in 1..Len(df.rows) :
            /\ df.rows[j].Tipo \in {"C", "D"}
            /\ df.rows[j].Tipo = "D" <=> ComecaComD(transacoes[origem[j]].Tipo)

C15_Witness ==
    /\ Normalizou
    /\ Len(df.rows) = 1
    /\ transacoes[1].Tipo = Chars("debito")
    /\ df.rows[1].Tipo = "D"

-----------------------------------------------------------------------------
(* avaliar_resultado as a state machine: one call on a table, one on a table
   holding some of its rows *)

MaxLinhasTab == 3        \* most rows of a drawn table

D1003 == <<"1", "0", "/", "0", "3", "/", "2", "0", "2", "4">>

\* Rows as normalizar_transacoes writes them; the amounts are multiples of
\* R$ 1.000,00
LinhasScore ==
    { [Data |-> d, Historico |-> "PIX", Valor |-> v, Tipo |-> t,
       Data_dt |-> to_datetime(d)] :
        d \in {D0103, D0203, D1003}, v \in {Mil, 50 * Mil}, t \in {"C", "D"} }

\* Tables in ascending date order, as normalizar_transacoes returns them
TabelasScore ==
    {[cols |-> Cols4, rows |-> <<>>]}
      \cup UNION { { [cols |-> Cols5, rows |-> r] :
                       r \in {q \in [1..k -> LinhasScore] :
                                \A j \in 1..(k - 1) : q[j].Data_dt <= q[j + 1].Data_dt} } :
                   k \in 1..MaxLinhasTab }

\* The rows of r at the positions of the set quais, from position i on
RECURSIVE Escolhidas(_, _, _)
Escolhidas(r, quais, i) ==
    IF i > Len(r) THEN <<>>
    ELSE (IF i \in quais THEN <<r[i]>> ELSE <<>>) \o Escolhidas(r, quais, i + 1)

InitScore ==
    /\ tabS \in TabelasScore
    /\ \E quais \in SUBSET (1..Len(tabS.rows)) :
          subS = [cols |-> Cols5, rows |-> Escolhidas(tabS.rows, quais, 1)]
    /\ scoreS = ScoreInicial
    /\ scoreSub = ScoreInicial
    /\ pcA = "inicio"
    /\ InitN0
    /\ InitU0
    /\ InitS0
    /\ InitC0
    /\ InitT0
    /\ InitL0
    /\ InitP0
    /\ InitB0

AvaliarTabela ==
    /\ pcA = "inicio"
    /\ scoreS' = avaliar_resultado(tabS)
    /\ pcA' = "avaliada"
    /\ UNCHANGED <<tabS, subS, scoreSub>>
    /\ UNCHANGED <<varsN, varsU, varsS, cenario, varsT, varsL, varsP, varsB>>

AvaliarSubtabela ==
    /\ pcA = "avaliada"
    /\ scoreSub' = avaliar_resultado(subS)
    /\ pcA' = "avaliadas"
    /\ UNCHANGED <<tabS, subS, scoreS>>
    /\ UNCHANGED <<varsN, varsU, varsS, cenario, varsT, varsL, varsP, varsB>>

NextScore == AvaliarTabela \/ AvaliarSubtabela

SpecScore == InitScore /\ [][NextScore]_vars

-----------------------------------------------------------------------------
(* Properties of avaliar_resultado (checked under SpecScore) *)

\* The four terms of the score of a non-empty table, each as a fraction:
\* 10 x rows; 5 x days from the first to the last date, both counted;
\* 50 x (1 - |share of D - share of C|) = 50 x (n - |nD - nC|) / n; and the
\* sample variance  Sum over pairs i < j of (ci - cj)^2 / (n (n - 1)),
\* here with the amounts in units of R$ 1.000,00, times 3e-6.
NumLinhas(tab) == Len(tab.rows)
TermoVolume(tab) == 10 * NumLinhas(tab)
TermoDias(tab) ==
    LET datas == {to_datetime(tab.rows[j].Data) : j \in 1..NumLinhas(tab)}
        maior == CHOOSE x \in datas : \A y \in datas : y <= x
        menor == CHOOSE x \in datas : \A y \in datas : y >= x
    IN  5 * ((maior - menor) + 1)
Conta(tab, t) == Len(SelectSeq(tab.rows, LAMBDA row : row.Tipo = t))
BalancoVezesN(tab) == 50 * (NumLinhas(tab) - Abs(Conta(tab, "D") - Conta(tab, "C")))
RECURSIVE SomaPares(_, _, _)
SomaPares(r, i, j) ==
    IF i >= Len(r) THEN 0
    ELSE IF j > Len(r) THEN SomaPares(r, i + 1, i + 2)
    ELSE ((r[i].Valor - r[j].Valor) \div Mil) * ((r[i].Valor - r[j].Valor) \div Mil)
           + SomaPares(r, i, j + 1)
Dispersao(tab) == SomaPares(tab.rows, 1, 2)    \* variance x n (n - 1), in (R$ 1.000,00)^2

Esperado(tab) ==
    IF NumLinhas(tab) = 0 THEN ScoreZero
    ELSE Pontos(NumLinhas(tab) * (TermoVolume(tab) + TermoDias(tab)) + BalancoVezesN(tab),
                NumLinhas(tab),
                IF NumLinhas(tab) >= 2 THEN Dispersao(tab) ELSE 0,
                Mil)

Igual(s1, s2) == ~Maior(s1, s2) /\ ~Maior(s2, s1)

\* C18: the score of an empty table is 0, and the score of a non-empty table
\* is exactly the sum of the four terms: 10 x row count, 5 x (max date - min
\* date in days, inclusive), the variance of the amounts times 3e-6 (only
\* with at least 2 rows), and 50 x (1 - |share of D - share of C|).
C18_SomaDosTermos ==
    /\ pcA # "inicio" =>
          /\ Igual(scoreS, Esperado(tabS))
          /\ NumLinhas(tabS) = 0 => Igual(scoreS, ScoreZero)
    /\ pcA = "avaliadas" =>
          /\ Igual(scoreSub, Esperado(subS))
          /\ NumLinhas(subS) = 0 => Igual(scoreSub, ScoreZero)

C18_Witness ==
    /\ pcA = "avaliadas"
    /\ NumLinhas(tabS) = 3
    /\ NumLinhas(subS) = 0
    /\ tabS.rows[1].Data = D0103
    /\ tabS.rows[3].Data = D1003
    /\ tabS.rows[1].Valor # tabS.rows[2].Valor
    /\ Conta(tabS, "D") = 2
    /\ Maior(scoreS, scoreSub)

\* C19 as stated: when the rows of one table are a strict superset of the
\* rows of the other, score(superset) >= score(subset).
C19_MonotonoNoVolume ==
    (pcA = "avaliadas" /\ NumLinhas(subS) < NumLinhas(tabS))
        => ~Maior(scoreSub, scoreS)

\* balance term and variance term of t1 not smaller than those of t2
BalancoNaoMenor(t1, t2) ==
    BalancoVezesN(t1) * NumLinhas(t2) >= BalancoVezesN(t2) * NumLinhas(t1)
FatorVar(tab) == IF NumLinhas(tab) >= 2 THEN NumLinhas(tab) * (NumLinhas(tab) - 1) ELSE 1
VarianciaNaoMenor(t1, t2) ==
    (IF NumLinhas(t1) >= 2 THEN Dispersao(t1) ELSE 0) * FatorVar(t2)
        >= (IF NumLinhas(t2) >= 2 THEN Dispersao(t2) ELSE 0) * FatorVar(t1)

\* C19 amended: when the rows of one table are a strict superset of the rows
\* of the other and neither the balance term nor the variance term of the
\* superset is smaller than the subset's, score(superset) >= score(subset).
C19_MonotonoSeRestoIgual ==
    (/\ pcA = "avaliadas"
     /\ NumLinhas(subS) < NumLinhas(tabS)
     /\ BalancoNaoMenor(tabS, subS)
     /\ VarianciaNaoMenor(tabS, subS))
        => ~Maior(scoreSub, scoreS)

C19_Witness ==
    /\ pcA = "avaliadas"
    /\ NumLinhas(subS) = 2
    /\ NumLinhas(tabS) = 3
    /\ BalancoNaoMenor(tabS, subS)
    /\ VarianciaNaoMenor(tabS, subS)
    /\ Maior(scoreS, scoreSub)

-----------------------------------------------------------------------------
(* processar_extrato_universal on a text from which one extractor yields a
   long balanced table, another a short all-debit table, and the others
   nothing *)

ParesA == 20             \* credit/debit pairs of rows of the long table

Marco(dia) == Dois(dia) \o <<"/", "0", "3", "/", "2", "0", "2", "4">>

LinhaDe(dia, valor, tipo) ==
    [Data |-> Marco(dia), Historico |-> "PIX", Valor |-> valor, Tipo |-> tipo,
     Data_dt |-> to_datetime(Marco(dia))]

\* 2 * ParesA rows from 01/03/2024 to 30/03/2024, credits and debits in turn
TabelaA(vC, vD) ==
    [cols |-> Cols5,
     rows |-> [j \in 1..(2 * ParesA) |->
                  LinhaDe(1 + ((j - 1) * 29) \div (2 * ParesA - 1),
                          IF j % 2 = 1 THEN vC ELSE vD,
                          IF j % 2 = 1 THEN "C" ELSE "D")]]

\* 5 debit rows on 01/03/2024 and 02/03/2024, the last one of amount vB
TabelaB(vB) ==
    [cols |-> Cols5,
     rows |-> << LinhaDe(1, Mil, "D"), LinhaDe(1, Mil, "D"), LinhaDe(1, Mil, "D"),
                 LinhaDe(2, Mil, "D"), LinhaDe(2, vB, "D") >>]

\* The normalized table of the extractor at position i
TabelaDoCenario(c, i) ==
    IF i = c.posA THEN TabelaA(c.vC, c.vD)
    ELSE IF i = c.posB THEN TabelaB(c.vB)
    ELSE [cols |-> Cols4, rows |-> <<>>]

InitCenario ==
    /\ cenario \in { [posA |-> a, posB |-> b, vC |-> x, vD |-> y, vB |-> z] :
                       a \in 1..NumProcessadores, b \in 1..NumProcessadores,
                       x \in {Mil, 2 * Mil}, y \in {Mil, 2 * Mil},
                       z \in {Mil, 2 * Mil, 40 * Mil} }
    /\ cenario.posA # cenario.posB
    /\ idx = 1
    /\ melhor_df = DataFrameVazio
    /\ melhor_score = ScoreInicial
    /\ melhor_processador = "NENHUM"
    /\ falha = "nenhuma"
    /\ primeiro = [s \in SaidasModelo |-> 0]
    /\ alguma_falha = FALSE
    /\ retorno = NoTable
    /\ pc = "loop"
    /\ InitN0
    /\ InitS0
    /\ InitA0
    /\ InitT0
    /\ InitL0
    /\ InitP0
    /\ InitB0

\* One iteration (lines 576-591) on the table of the scenario's extractor
IteracaoCenario ==
    /\ pc = "loop"
    /\ LET df_atual == TabelaDoCenario(cenario, idx)
           score_atual == avaliar_resultado(df_atual)
       IN  IF Maior(score_atual, melhor_score)
           THEN /\ melhor_score' = score_atual
                /\ melhor_df' = df_atual
                /\ melhor_processador' = PROCESSADORES[idx]
           ELSE UNCHANGED <<melhor_score, melhor_df, melhor_processador>>
    /\ falha' = "nenhuma"
    /\ Avanca
    /\ UNCHANGED <<primeiro, alguma_falha, retorno>>
    /\ UNCHANGED varsN
    /\ UNCHANGED varsX

NextCenario == IteracaoCenario \/ Finalizar

SpecCenario == InitCenario /\ [][NextCenario]_vars

\* C20: when one extractor yields 40 rows evenly split between credits and
\* debits spanning 30 days and another yields 5 all-debit rows spanning 2
\* days, the orchestrator selects the 40-row table, whatever the amounts.
C20_SelecionaMaisLinhas ==
    (pc = "retornou" /\ cenario # SemCenario) =>
        /\ melhor_processador = PROCESSADORES[cenario.posA]
        /\ Len(retorno.rows) = 2 * ParesA

-----------------------------------------------------------------------------
(* The extractors.  A statement text is the sequence of its lines
   (texto.splitlines()); an extractor is its loop body, a step from the
   loop's state (trans, current_date, buffer) and one line to the next
   state, folded over the lines. *)

\* \d{1,3}(?:\.\d{3})*,\d{2}
VALOR == Cat(<<Rep(Dg, 1, 3), Star(Cat(<<Lit("."), Rep(Dg, 3, 3)>>)),
               Lit(","), Rep(Dg, 2, 2)>>)

\* \d{2}/\d{2}/\d{4} and \d{2}/\d{2}
DDMMAAAA == Cat(<<Rep(Dg, 2, 2), Lit("/"), Rep(Dg, 2, 2), Lit("/"), Rep(Dg, 4, 4)>>)
DDMM == Cat(<<Rep(Dg, 2, 2), Lit("/"), Rep(Dg, 2, 2)>>)

\* -?\s?VALOR
VALOR_SINAL == Cat(<<Opt(Lit("-")), Opt(Ws), VALOR>>)

\* trans, current_date, buffer = [], None, []
Estado0 == [trans |-> <<>>, current_date |-> None, buffer |-> <<>>]

Transacao(data, historico, valor, tipo) ==
    [Data |-> data, Historico |-> historico, Valor |-> StrV(valor), Tipo |-> tipo]

\* Lines 102-120
bb_passo(st, bruta) ==
    LET linha0 == strip(bruta)
    IN  IF Len(linha0) = 0 \/ linha_parece_sujo(linha0) THEN st
        ELSE
          LET m_date == re_match(Grp(1, DDMMAAAA), linha0)
              current_date == IF m_date.ok THEN grupo(m_date, linha0, 1)
                              ELSE st.current_date
              buffer == IF m_date.ok THEN <<>> ELSE st.buffer
              linha == IF m_date.ok THEN strip(desde(linha0, m_date.fim)) ELSE linha0
          IN  IF current_date = None THEN st
              ELSE
                LET m_val == re_search(Grp(1, VALOR_SINAL), linha)
                    m_cd == re_search(Cat(<<WB, Grp(1, Um({"C", "D"})), WB>>), linha)
                    valor_raw == replace(grupo(m_val, linha, 1), <<" ">>, <<>>)
                    tipo == IF (m_cd.ok /\ grupo(m_cd, linha, 1) = <<"D">>)
                                 \/ contem(valor_raw, <<"-">>)
                            THEN <<"D">> ELSE <<"C">>
                    historico == strip(join(buffer \o <<strip(ate(linha, m_val.ini))>>))
                IN  IF m_val.ok
                    THEN [trans |-> Append(st.trans,
                                      Transacao(current_date, historico, valor_raw, tipo)),
                          current_date |-> current_date,
                          buffer |-> <<>>]
                    ELSE [trans |-> st.trans,
                          current_date |-> current_date,
                          buffer |-> Append(buffer, linha)]

\* The loop body without the "buffer = []" that follows trans.append
bradesco_passo_sem_esvaziar(st, bruta) ==
    LET linha0 == strip(bruta)
    IN  IF Len(linha0) = 0 \/ linha_parece_sujo(linha0) THEN st
        ELSE
          LET m_date == re_match(Grp(1, DDMMAAAA), linha0)
              current_date == IF m_date.ok THEN grupo(m_date, linha0, 1)
                              ELSE st.current_date
              buffer == IF m_date.ok THEN <<>> ELSE st.buffer
              linha == IF m_date.ok THEN strip(desde(linha0, m_date.fim)) ELSE linha0
          IN  IF current_date = None THEN st
              ELSE
                LET m_val == re_search(Grp(1, VALOR_SINAL), linha)
                    raw_val == replace(grupo(m_val, linha, 1), <<" ">>, <<>>)
                    tipo == IF contem(raw_val, <<"-">>) THEN <<"D">> ELSE <<"C">>
                    historico == strip(join(buffer \o <<strip(ate(linha, m_val.ini))>>))
                IN  IF m_val.ok
                    THEN [trans |-> Append(st.trans,
                                      Transacao(current_date, historico, raw_val, tipo)),
                          current_date |-> current_date,
                          buffer |-> buffer]
                    ELSE [trans |-> st.trans,
                          current_date |-> current_date,
                          buffer |-> Append(buffer, linha)]

\* Lines 178-195
bradesco_passo(st, bruta) ==
    LET linha0 == strip(bruta)
    IN  IF Len(linha0) = 0 \/ linha_parece_sujo(linha0) THEN st
        ELSE
          LET m_date == re_match(Grp(1, DDMMAAAA), linha0)
              current_date == IF m_date.ok THEN grupo(m_date, linha0, 1)
                              ELSE st.current_date
              buffer == IF m_date.ok THEN <<>> ELSE st.buffer
              linha == IF m_date.ok THEN strip(desde(linha0, m_date.fim)) ELSE linha0
          IN  IF current_date = None THEN st
              ELSE
                LET m_val == re_search(Grp(1, VALOR_SINAL), linha)
                    raw_val == replace(grupo(m_val, linha, 1), <<" ">>, <<>>)
                    tipo == IF contem(raw_val, <<"-">>) THEN <<"D">> ELSE <<"C">>
                    historico == strip(join(buffer \o <<strip(ate(linha, m_val.ini))>>))
                IN  IF m_val.ok
                    THEN [trans |-> Append(st.trans,
                                      Transacao(current_date, historico, raw_val, tipo)),
                          current_date |-> current_date,
                          buffer |-> <<>>]
                    ELSE [trans |-> st.trans,
                          current_date |-> current_date,
                          buffer |-> Append(buffer, linha)]

\* \s+ -> " "
colapsa(s) == re_sub(Plus(Ws), <<" ">>, s)

\* s[a:b] with positions counted from 1 and b exclusive; empty when b <= a
fatia(s, a, b) == IF b > a THEN SubSeq(s, a, b - 1) ELSE <<>>

\* generico_passo without the "if m:" of line 481
generico_passo_sem_if(st, bruta) ==
    LET linha == strip(bruta)
    IN  IF Len(linha) = 0 \/ linha_parece_sujo(linha) THEN st
        ELSE
          LET m == re_search(Cat(<<Grp(1, DDMMAAAA), RepLazy(Ponto, 0, Inf),
                                   Grp(2, VALOR_SINAL)>>), linha)
              data == grupo(m, linha, 1)
              raw_val == grupo(m, linha, 2)
              tipo == IF contem(raw_val, <<"-">>) THEN <<"D">> ELSE <<"C">>
              hist == colapsa(strip(fatia(linha, find(linha, data) + Len(data),
                                          find(linha, raw_val))))
          IN  [st EXCEPT !.trans = Append(st.trans,
                   Transacao(data, hist, replace(raw_val, <<"-">>, <<>>), tipo))]

\* Lines 477-485
generico_passo(st, bruta) ==
    LET linha == strip(bruta)
    IN  IF Len(linha) = 0 \/ linha_parece_sujo(linha) THEN st
        ELSE
          LET m == re_search(Cat(<<Grp(1, DDMMAAAA), RepLazy(Ponto, 0, Inf),
                                   Grp(2, VALOR_SINAL)>>), linha)
              data == grupo(m, linha, 1)
              raw_val == grupo(m, linha, 2)
              tipo == IF contem(raw_val, <<"-">>) THEN <<"D">> ELSE <<"C">>
              \* linha.find(raw_val) is -1 + 1 = 0 here only if raw_val is absent,
              \* which a match excludes
              hist == colapsa(strip(fatia(linha, find(linha, data) + Len(data),
                                          find(linha, raw_val))))
          IN  IF m.ok
              THEN [st EXCEPT !.trans = Append(st.trans,
                        Transacao(data, hist, replace(raw_val, <<"-">>, <<>>), tipo))]
              ELSE st

LetrasAscii == {Minusculas[k] : k \in 1..26} \cup {Maiusculas[k] : k \in 1..26}

\* str.zfill(2)
zfill2(s) == IF Len(s) < 2 THEN <<"0">> \o s ELSE s

\* meses.get(abrev, "00") of lines 127 and 135
meses_itau_padrao_janeiro(abrev) ==
    CASE abrev = Chars("mai") -> Chars("05")
      [] OTHER -> Chars("01")

meses_itau(abrev) ==
    CASE abrev = Chars("jan") -> Chars("01") [] abrev = Chars("fev") -> Chars("02")
      [] abrev = Chars("mar") -> Chars("03") [] abrev = Chars("abr") -> Chars("04")
      [] abrev = Chars("mai") -> Chars("05") [] abrev = Chars("jun") -> Chars("06")
      [] abrev = Chars("jul") -> Chars("07") [] abrev = Chars("ago") -> Chars("08")
      [] abrev = Chars("set") -> Chars("09") [] abrev = Chars("out") -> Chars("10")
      [] abrev = Chars("nov") -> Chars("11") [] abrev = Chars("dez") -> Chars("12")
      [] OTHER -> Chars("00")

\* Lines 128-140
itau_formato1_passo(st, bruta) ==
    LET linha == strip(bruta)
    IN  IF \/ Len(linha) = 0
           \/ linha_parece_sujo(linha)
           \/ re_search(Cat(<<WB, LitI("sdo"), Plus(Ws),
                              Ou(<<LitI("cta"), LitI("apl"), LitI("conta")>>)>>), linha).ok
        THEN st
        ELSE
          LET m_data == re_search(Cat(<<Grp(1, Rep(Dg, 1, 2)), Star(Ws), Lit("/"),
                                        Star(Ws), Grp(2, Rep(Um(LetrasAscii), 3, 3))>>),
                                  linha)
              m_val == re_search(Grp(1, Cat(<<Opt(Lit("-")), VALOR>>)), linha)
              dia == grupo(m_data, linha, 1)
              mes_abrev == grupo(m_data, linha, 2)
              mes_num == meses_itau(lower(mes_abrev))
              data == zfill2(dia) \o <<"/">> \o mes_num \o Chars("/2024")
              valor_raw == replace(grupo(m_val, linha, 1), <<" ">>, <<>>)
              tipo == IF contem(valor_raw, <<"-">>) THEN <<"D">> ELSE <<"C">>
              historico == strip(fatia(linha, m_data.fim, m_val.ini))
          IN  IF m_data.ok /\ m_val.ok
              THEN [st EXCEPT !.trans = Append(st.trans,
                        Transacao(data, historico, valor_raw, tipo))]
              ELSE st

\* Lines 147-166
itau_formato2_passo(st, bruta) ==
    LET linha0 == strip(bruta)
    IN  IF \/ Len(linha0) = 0
           \/ re_search(Cat(<<WB, LitI("saldo"), Plus(Ws), LitI("final"), WB>>), linha0).ok
           \/ linha_parece_sujo(linha0)
        THEN st
        ELSE
          LET m_date == re_match(Cat(<<Grp(1, DDMM), WB>>), linha0)
              current_date == IF m_date.ok THEN grupo(m_date, linha0, 1) \o Chars("/2024")
                              ELSE st.current_date
              buffer == IF m_date.ok THEN <<>> ELSE st.buffer
              linha == IF m_date.ok THEN strip(desde(linha0, m_date.fim)) ELSE linha0
          IN  IF current_date = None THEN st
              ELSE
                LET m_val == re_search(Cat(<<Grp(1, VALOR), Grp(2, Opt(Lit("-")))>>), linha)
                    raw_val == grupo(m_val, linha, 1)
                    negativo == grupo(m_val, linha, 2)
                    tipo == IF negativo = <<"-">> THEN <<"D">> ELSE <<"C">>
                    historico ==
                        strip(colapsa(strip(join(buffer \o <<strip(ate(linha, m_val.ini))>>))))
                IN  IF m_val.ok
                    THEN [trans |-> IF Len(historico) > 1
                                    THEN Append(st.trans,
                                           Transacao(current_date, historico, raw_val, tipo))
                                    ELSE st.trans,
                          current_date |-> current_date,
                          buffer |-> <<>>]
                    ELSE [trans |-> st.trans,
                          current_date |-> current_date,
                          buffer |-> IF Len(linha) > 0 THEN Append(buffer, linha)
                                     ELSE buffer]

\* for val in valores: historico = historico.replace(val, "")
RECURSIVE remove_todos(_, _)
remove_todos(s, valores) ==
    IF Len(valores) = 0 THEN s
    ELSE remove_todos(replace(s, valores[1], <<>>), Tail(valores))

\* str.endswith
endswith(s, sub) ==
    Len(s) >= Len(sub) /\ SubSeq(s, Len(s) - Len(sub) + 1, Len(s)) = sub

\* Lines 202-218 (this loop keeps no buffer)
santander_formato1_passo(st, bruta) ==
    LET linha0 == strip(bruta)
    IN  IF Len(linha0) = 0 \/ linha_parece_sujo(linha0) THEN st
        ELSE
          LET m_date == re_match(Cat(<<Grp(1, DDMM), WB>>), linha0)
              current_date == IF m_date.ok THEN grupo(m_date, linha0, 1) \o Chars("/2025")
                              ELSE st.current_date
              linha == IF m_date.ok THEN strip(desde(linha0, m_date.fim)) ELSE linha0
          IN  IF current_date = None THEN st
              ELSE
                LET valores == re_findall(Cat(<<Grp(1, VALOR), Star(Ws), Opt(Lit("-"))>>),
                                          linha)
                    h1 == remove_todos(linha, valores)
                    h2 == strip(re_sub(Cat(<<WB, Rep(Dg, 5, Inf), WB>>), <<>>,
                                       replace(h1, <<"-">>, <<>>)))
                    historico == strip(colapsa(h2))
                    tipo == IF endswith(rstrip(linha), <<"-">>) THEN <<"D">> ELSE <<"C">>
                IN  IF Len(valores) = 0
                    THEN [st EXCEPT !.current_date = current_date]
                    ELSE [st EXCEPT
                            !.current_date = current_date,
                            !.trans = IF Len(historico) > 2
                                      THEN Append(st.trans,
                                             Transacao(current_date, historico,
                                                       item(valores, 1), tipo))
                                      ELSE st.trans]

\* Lines 225-233
santander_formato2_passo(st, bruta) ==
    LET linha == strip(bruta)
    IN  IF Len(linha) = 0 \/ linha_parece_sujo(linha) THEN st
        ELSE
          LET m == re_search(Cat(<<Grp(1, DDMMAAAA), Plus(Ws),
                                   Grp(2, RepLazy(Ponto, 1, Inf)), Plus(Ws),
                                   Plus(Dg), Plus(Ws),
                                   Grp(3, Cat(<<Opt(Lit("-")), VALOR>>))>>), linha)
              data == grupo(m, linha, 1)
              hist == grupo(m, linha, 2)
              raw_val == grupo(m, linha, 3)
              tipo == IF contem(raw_val, <<"-">>) THEN <<"D">> ELSE <<"C">>
          IN  IF m.ok
              THEN [st EXCEPT !.trans = Append(st.trans,
                        Transacao(data, strip(hist), replace(raw_val, <<"-">>, <<>>), tipo))]
              ELSE st

\* The loop body with a memory of the line before: a match dated like the
\* last record is skipped
caixa_passo_sem_repetir(st, bruta) ==
    LET linha == strip(bruta)
    IN  IF Len(linha) = 0 \/ linha_parece_sujo(linha) THEN st
        ELSE
          LET m == re_search(Cat(<<Grp(1, DDMMAAAA), Plus(Ws), Plus(Dg), Plus(Ws),
                                   Grp(2, RepLazy(Ponto, 1, Inf)), Plus(Ws),
                                   Grp(3, Cat(<<Opt(Lit("-")), VALOR>>)), Plus(Ws),
                                   Grp(4, Um({"C", "D"}))>>), linha)
              data == grupo(m, linha, 1)
              hist == grupo(m, linha, 2)
              raw_val == grupo(m, linha, 3)
              tipo_flag == grupo(m, linha, 4)
              tipo == IF upper(tipo_flag) = <<"D">> \/ contem(raw_val, <<"-">>)
                      THEN <<"D">> ELSE <<"C">>
          IN  IF m.ok /\ (Len(st.trans) = 0 \/ st.trans[Len(st.trans)].Data # data)
              THEN [st EXCEPT !.trans = Append(st.trans,
                        Transacao(data, strip(hist), replace(raw_val, <<"-">>, <<>>), tipo))]
              ELSE st

\* Lines 245-253
caixa_passo(st, bruta) ==
    LET linha == strip(bruta)
    IN  IF Len(linha) = 0 \/ linha_parece_sujo(linha) THEN st
        ELSE
          LET m == re_search(Cat(<<Grp(1, DDMMAAAA), Plus(Ws), Plus(Dg), Plus(Ws),
                                   Grp(2, RepLazy(Ponto, 1, Inf)), Plus(Ws),
                                   Grp(3, Cat(<<Opt(Lit("-")), VALOR>>)), Plus(Ws),
                                   Grp(4, Um({"C", "D"}))>>), linha)
              data == grupo(m, linha, 1)
              hist == grupo(m, linha, 2)
              raw_val == grupo(m, linha, 3)
              tipo_flag == grupo(m, linha, 4)
              tipo == IF upper(tipo_flag) = <<"D">> \/ contem(raw_val, <<"-">>)
                      THEN <<"D">> ELSE <<"C">>
          IN  IF m.ok
              THEN [st EXCEPT !.trans = Append(st.trans,
                        Transacao(data, strip(hist), replace(raw_val, <<"-">>, <<>>), tipo))]
              ELSE st

\* Lines 260-269
xp_passo(st, bruta) ==
    LET linha == strip(bruta)
    IN  IF Len(linha) = 0 \/ linha_parece_sujo(linha) THEN st
        ELSE
          LET m == re_search(Cat(<<Grp(1, DDMMAAAA), Plus(Ws),
                                   Grp(2, RepLazy(Ponto, 1, Inf)), Plus(Ws),
                                   Grp(3, Cat(<<Opt(Lit("-")), Opt(Lit("R")), Opt(Lit("$")),
                                                Star(Ws), VALOR>>))>>), linha)
              data == grupo(m, linha, 1)
              hist == grupo(m, linha, 2)
              raw_val == strip(replace(grupo(m, linha, 3), <<"R", "$">>, <<>>))
              tipo == IF contem(raw_val, <<"-">>) THEN <<"D">> ELSE <<"C">>
          IN  IF m.ok
              THEN [st EXCEPT !.trans = Append(st.trans,
                        Transacao(data, strip(hist), replace(raw_val, <<"-">>, <<>>), tipo))]
              ELSE st

\* s[:p] for a position p that may lie beyond the end of s
ate_limitado(s, p) == SubSeq(s, 1, IF p - 1 > Len(s) THEN Len(s) ELSE p - 1)

\* (DOC\.:\s*\d+|CODIGO\s+TED:\s*T\d+) under re.IGNORECASE
DOC_OU_TED ==
    Grp(1, Ou(<<Cat(<<LitI("doc.:"), Star(Ws), Plus(Dg)>>),
                Cat(<<LitI("codigo"), Plus(Ws), LitI("ted:"), Star(Ws), LitI("t"),
                      Plus(Dg)>>)>>))

\* Lines 281-349. Both value patterns are searched in the line as it is before
\* the date is cut off, and their positions are then used on the shortened line.
sicoob_passo(st, bruta) ==
    LET linha0 == strip(bruta)
        limpa(h) == strip(colapsa(strip(re_sub(DOC_OU_TED, <<>>, h))))
        \* lines 317-320
        com_tipo(current_date, historico, raw_val, tipo_flag) ==
            [trans |-> IF Len(historico) > 2
                       THEN Append(st.trans,
                              Transacao(current_date, historico, raw_val,
                                        upper(tipo_flag)))
                       ELSE st.trans,
             current_date |-> current_date,
             buffer |-> <<>>]
        \* lines 324-345
        so_valor(current_date, junto, raw_val) ==
            LET historico_tentativa == lower(junto)
                tipo ==
                    IF \/ contem(historico_tentativa, Chars("emit.outra if"))
                       \/ contem(historico_tentativa, Chars("deb"))
                    THEN <<"D">>
                    ELSE IF \/ contem(historico_tentativa, Chars("receb.outra if"))
                            \/ contem(historico_tentativa, Chars("cred"))
                            \/ contem(historico_tentativa, Chars("transf.contas"))
                    THEN <<"C">>
                    ELSE <<"D">>
                grava(historico) ==
                    [trans |-> IF ~linha_parece_sujo(historico) /\ Len(historico) > 2
                               THEN Append(st.trans,
                                      Transacao(current_date, historico, raw_val, tipo))
                               ELSE st.trans,
                     current_date |-> current_date,
                     buffer |-> <<>>]
            IN  grava(limpa(junto))
        \* lines 295-349, with the three matches of lines 286-293
        corpo(m_date, m_val_tipo, m_val_only) ==
            LET current_date == IF m_date.ok
                                THEN grupo(m_date, linha0, 1) \o Chars("/2021")
                                ELSE st.current_date
                linha == IF m_date.ok THEN strip(desde(linha0, m_date.fim)) ELSE linha0
                buffer == IF m_date.ok THEN <<>> ELSE st.buffer
            IN  IF current_date = None
                THEN [st EXCEPT !.buffer = IF ~linha_parece_sujo(linha)
                                           THEN Append(buffer, linha) ELSE buffer]
                ELSE IF m_val_tipo.ok
                THEN com_tipo(current_date,
                              limpa(strip(join(buffer
                                  \o <<strip(ate_limitado(linha, m_val_tipo.ini))>>))),
                              grupo(m_val_tipo, linha0, 1),
                              grupo(m_val_tipo, linha0, 2))
                ELSE IF m_val_only.ok
                THEN so_valor(current_date,
                              strip(join(buffer
                                  \o <<strip(ate_limitado(linha, m_val_only.ini))>>)),
                              grupo(m_val_only, linha0, 1))
                ELSE [trans |-> st.trans,
                      current_date |-> current_date,
                      buffer |-> IF Len(linha) > 0 /\ ~linha_parece_sujo(linha)
                                 THEN Append(buffer, linha) ELSE buffer]
    IN  IF Len(linha0) = 0 THEN st
        ELSE corpo(re_match(Grp(1, DDMM), linha0),
                   re_search(Cat(<<Grp(1, VALOR), Star(Ws), Grp(2, Um({"C", "D"})),
                                   Star(Ws), Eol>>), linha0),
                   re_search(Cat(<<Grp(1, VALOR), Star(Ws), Eol>>), linha0))

\* Lines 357-381
bnb_passo(st, bruta) ==
    LET linha0 == strip(bruta)
    IN  IF \/ Len(linha0) = 0
           \/ linha_parece_sujo(linha0)
           \/ re_search(Cat(<<LitI("detalhamento"), Plus(Ws), LitI("do"), Plus(Ws),
                              LitI("saldo")>>), linha0).ok
        THEN st
        ELSE
          LET m_date == re_match(Grp(1, DDMMAAAA), linha0)
              current_date == IF m_date.ok THEN grupo(m_date, linha0, 1)
                              ELSE st.current_date
              buffer == IF m_date.ok THEN <<>> ELSE st.buffer
              linha == IF m_date.ok THEN strip(desde(linha0, m_date.fim)) ELSE linha0
          IN  IF current_date = None THEN st
              ELSE
                LET m_val_tipo == re_search(Cat(<<Grp(1, VALOR), Plus(Ws),
                                                  Grp(2, Um({"D", "C"})), WB>>), linha)
                    m_val == re_search(Grp(1, VALOR_SINAL), linha)
                    raw_val == replace(grupo(m_val, linha, 1), <<" ">>, <<>>)
                    tipo == IF contem(raw_val, <<"-">>) THEN <<"D">> ELSE <<"C">>
                IN  IF m_val_tipo.ok
                    THEN [trans |-> Append(st.trans,
                              Transacao(current_date,
                                  strip(join(buffer
                                      \o <<strip(ate(linha, m_val_tipo.ini))>>)),
                                  grupo(m_val_tipo, linha, 1),
                                  upper(grupo(m_val_tipo, linha, 2)))),
                          current_date |-> current_date,
                          buffer |-> <<>>]
                    ELSE IF m_val.ok
                    THEN [trans |-> Append(st.trans,
                              Transacao(current_date,
                                  strip(join(buffer \o <<strip(ate(linha, m_val.ini))>>)),
                                  replace(raw_val, <<"-">>, <<>>), tipo)),
                          current_date |-> current_date,
                          buffer |-> <<>>]
                    ELSE [trans |-> st.trans,
                          current_date |-> current_date,
                          buffer |-> Append(buffer, linha)]

\* meses.get(mes_abrev, '00') of lines 388 and 394
meses_nubank(abrev) ==
    CASE abrev = Chars("JAN") -> Chars("01") [] abrev = Chars("FEV") -> Chars("02")
      [] abrev = Chars("MAR") -> Chars("03") [] abrev = Chars("ABR") -> Chars("04")
      [] abrev = Chars("MAI") -> Chars("05") [] abrev = Chars("JUN") -> Chars("06")
      [] abrev = Chars("JUL") -> Chars("07") [] abrev = Chars("AGO") -> Chars("08")
      [] abrev = Chars("SET") -> Chars("09") [] abrev = Chars("OUT") -> Chars("10")
      [] abrev = Chars("NOV") -> Chars("11") [] abrev = Chars("DEZ") -> Chars("12")
      [] abrev = <<"M", CCedilhaM, "O">> -> Chars("03")
      [] OTHER -> Chars("00")

\* Lines 389-409
nubank_passo(st, bruta) ==
    LET linha == strip(bruta)
        m_date == re_match(Cat(<<Grp(1, Rep(Dg, 2, 2)), Plus(Ws),
                                 Grp(2, Rep(Um({Maiusculas[k] : k \in 1..27}), 3, 3)),
                                 Plus(Ws), Grp(3, Rep(Dg, 4, 4))>>), linha)
    IN  IF m_date.ok
        THEN [st EXCEPT
                !.current_date = grupo(m_date, linha, 1) \o <<"/">>
                                   \o meses_nubank(grupo(m_date, linha, 2)) \o <<"/">>
                                   \o grupo(m_date, linha, 3),
                !.buffer = <<>>]
        ELSE IF st.current_date = None \/ linha_parece_sujo(linha) THEN st
        ELSE
          LET m_val == re_search(Grp(1, Cat(<<Opt(Lit("-")), Opt(Ws), Opt(Lit("R")),
                                              Opt(Lit("$")), Opt(Ws), VALOR>>)), linha)
              raw_val == strip(replace(replace(grupo(m_val, linha, 1), <<"R", "$">>, <<>>),
                                       <<" ">>, <<>>))
              antes == strip(ate(linha, m_val.ini))
              historico == strip(colapsa(IF Len(antes) > 0 THEN antes
                                         ELSE strip(join(st.buffer))))
              tipo == IF contem(lower(historico), Chars("recebid")) THEN <<"C">>
                      ELSE IF \/ contem(lower(historico), Chars("enviado"))
                              \/ contem(raw_val, <<"-">>)
                      THEN <<"D">> ELSE <<"C">>
          IN  IF m_val.ok
              THEN [st EXCEPT
                      !.trans = IF Len(historico) > 0
                                THEN Append(st.trans,
                                       Transacao(st.current_date, historico,
                                                 replace(raw_val, <<"-">>, <<>>), tipo))
                                ELSE st.trans,
                      !.buffer = <<>>]
              ELSE IF Len(linha) > 0 /\ ~startswith(lower(linha), Chars("total"))
              THEN [st EXCEPT !.buffer = Append(st.buffer, linha)]
              ELSE st

\* Lines 416-445
safra_passo(st, bruta) ==
    LET linha0 == strip(bruta)
    IN  IF Len(linha0) = 0 \/ linha_parece_sujo(linha0) \/ startswith(linha0, <<"/">>)
        THEN st
        ELSE IF Len(re_findall(Grp(1, Cat(<<Lit("R$"), Star(Ws), VALOR>>)), linha0)) >= 3
        THEN st
        ELSE
          LET m_novo == re_match(Cat(<<Grp(1, DDMM), Plus(Ws),
                                       Grp(2, RepLazy(Ponto, 1, Inf)), Plus(Ws),
                                       Grp(3, Cat(<<Opt(Lit("-")), VALOR>>)),
                                       Star(Ws), Eol>>), linha0)
          IN  IF m_novo.ok
              THEN LET data == grupo(m_novo, linha0, 1) \o Chars("/2024")
                       raw_val == grupo(m_novo, linha0, 3)
                       tipo == IF contem(raw_val, <<"-">>) THEN <<"D">> ELSE <<"C">>
                       historico ==
                           strip(re_sub(Cat(<<Plus(Ws), Rep(Dg, 6, Inf), Star(Ws), Eol>>),
                                        <<>>, grupo(m_novo, linha0, 2)))
                   IN  IF Len(historico) > 3
                       THEN [st EXCEPT !.trans = Append(st.trans,
                                 Transacao(data, historico,
                                           replace(raw_val, <<"-">>, <<>>), tipo))]
                       ELSE st
              ELSE
                LET m_date == re_match(Grp(1, DDMM), linha0)
                    current_date == IF m_date.ok
                                    THEN grupo(m_date, linha0, 1) \o Chars("/2024")
                                    ELSE st.current_date
                    buffer == IF m_date.ok THEN <<>> ELSE st.buffer
                    linha == IF m_date.ok THEN strip(desde(linha0, m_date.fim)) ELSE linha0
                IN  IF current_date = None THEN st
                    ELSE
                      LET m_val == re_search(Cat(<<Grp(1, VALOR), Star(Ws), Opt(Lit("-")),
                                                   Star(Ws), Eol>>), linha)
                          raw_val == grupo(m_val, linha, 1)
                          tipo == IF contem(desde(linha, m_val.ini), <<"-">>)
                                  THEN <<"D">> ELSE <<"C">>
                          historico ==
                              strip(re_sub(Cat(<<Lit("-"), Rep(Dg, 6, 6)>>), <<>>,
                                  strip(join(buffer \o <<strip(ate(linha, m_val.ini))>>))))
                      IN  IF m_val.ok
                          THEN [trans |-> IF Len(historico) > 2
                                          THEN Append(st.trans,
                                                 Transacao(current_date, historico,
                                                           raw_val, tipo))
                                          ELSE st.trans,
                                current_date |-> current_date,
                                buffer |-> <<>>]
                          ELSE [trans |-> st.trans,
                                current_date |-> current_date,
                                buffer |-> IF Len(linha) > 0 THEN Append(buffer, linha)
                                           ELSE buffer]

\* meses.get(mes_ext.lower(), "00") of lines 452 and 459
meses_inter(nome) ==
    CASE nome = Chars("janeiro") -> Chars("01") [] nome = Chars("fevereiro") -> Chars("02")
      [] nome = <<"m", "a", "r", CCedilha, "o">> -> Chars("03")
      [] nome = Chars("marco") -> Chars("03") [] nome = Chars("abril") -> Chars("04")
      [] nome = Chars("maio") -> Chars("05") [] nome = Chars("junho") -> Chars("06")
      [] nome = Chars("julho") -> Chars("07") [] nome = Chars("agosto") -> Chars("08")
      [] nome = Chars("setembro") -> Chars("09") [] nome = Chars("outubro") -> Chars("10")
      [] nome = Chars("novembro") -> Chars("11") [] nome = Chars("dezembro") -> Chars("12")
      [] OTHER -> Chars("00")

\* str.removesuffix
removesuffix(s, suf) ==
    IF Len(suf) > 0 /\ endswith(s, suf) THEN SubSeq(s, 1, Len(s) - Len(suf)) ELSE s

\* Lines 453-470 (data_atual is kept in the current_date field)
inter_passo(st, bruta) ==
    LET linha == strip(bruta)
    IN  IF Len(linha) = 0 THEN st
        ELSE
          LET m_data == re_search(Cat(<<Grp(1, Rep(Dg, 1, 2)), Plus(Ws), LitI("de"),
                                        Plus(Ws),
                                        Grp(2, Plus(Um(LetrasAscii
                                                         \cup {CCedilha, CCedilhaM}))),
                                        Plus(Ws), LitI("de"), Plus(Ws),
                                        Grp(3, Rep(Dg, 4, 4)), Plus(Ws), LitI("saldo"),
                                        Plus(Ws), LitI("do"), Plus(Ws), LitI("dia:")>>),
                                  linha)
          IN  IF m_data.ok
              THEN [st EXCEPT !.current_date =
                       zfill2(grupo(m_data, linha, 1)) \o <<"/">>
                         \o meses_inter(lower(grupo(m_data, linha, 2))) \o <<"/">>
                         \o grupo(m_data, linha, 3)]
              ELSE IF st.current_date = None \/ linha_parece_sujo(linha) THEN st
              ELSE
                LET valores == re_findall(Grp(1, Cat(<<Opt(Lit("-")), Opt(Lit("R")),
                                                       Opt(Lit("$")), Opt(Ws), VALOR>>)),
                                          linha)
                    valor_transacao == item(valores, 1)
                    raw_val == strip(replace(replace(valor_transacao, <<"R", "$">>, <<>>),
                                             <<" ">>, <<>>))
                    tipo == IF contem(raw_val, <<"-">>) THEN <<"D">> ELSE <<"C">>
                    historico ==
                        strip(removesuffix(
                            replace(strip(ate(linha, find(linha, valor_transacao))),
                                    <<"\"">>, <<>>),
                            <<":">>))
                IN  IF Len(valores) < 2 THEN st
                    ELSE [st EXCEPT !.trans = Append(st.trans,
                              Transacao(st.current_date, historico,
                                        replace(raw_val, <<"-">>, <<>>), tipo))]

\* One turn of the "for linha in linhas" loop of the named extractor
passo(nome, st, bruta) ==
    CASE nome = "BB" -> bb_passo(st, bruta)
      [] nome = "ITAU_FORMATO1" -> itau_formato1_passo(st, bruta)
      [] nome = "ITAU_FORMATO2" -> itau_formato2_passo(st, bruta)
      [] nome = "BRADESCO" -> bradesco_passo(st, bruta)
      [] nome = "SANTANDER_FORMATO1" -> santander_formato1_passo(st, bruta)
      [] nome = "SANTANDER_FORMATO2" -> santander_formato2_passo(st, bruta)
      [] nome = "CAIXA" -> caixa_passo(st, bruta)
      [] nome = "XP" -> xp_passo(st, bruta)
      [] nome = "SICOOB" -> sicoob_passo(st, bruta)
      [] nome = "BNB" -> bnb_passo(st, bruta)
      [] nome = "NUBANK" -> nubank_passo(st, bruta)
      [] nome = "INTER" -> inter_passo(st, bruta)
      [] nome = "SAFRA" -> safra_passo(st, bruta)
      [] nome = "GENERICO" -> generico_passo(st, bruta)

\* The whole loop over texto.splitlines() from its turn i on: the list trans
\* at the end, and the positions of the lines at whose turn it grew
RECURSIVE percorrer(_, _, _, _, _)
percorrer(nome, linhas, i, st, cresceu) ==
    IF i > Len(linhas) THEN [trans |-> st.trans, fontes |-> cresceu]
    ELSE LET depois == passo(nome, st, linhas[i])
         IN  percorrer(nome, linhas, i + 1, depois,
                       IF Len(depois.trans) > Len(st.trans) THEN cresceu \cup {i}
                       ELSE cresceu)

laco(nome, linhas) == percorrer(nome, linhas, 1, Estado0, {})

\* The loops behind the name registered in PROCESSADORES, in the order they
\* are tried (lines 169-172 and 236-239 for the two-format banks)
formatos(nome) ==
    CASE nome = "ITAU" -> <<"ITAU_FORMATO2", "ITAU_FORMATO1">>
      [] nome = "SANTANDER" -> <<"SANTANDER_FORMATO2", "SANTANDER_FORMATO1">>
      [] OTHER -> <<nome>>

\* trans_f2 if trans_f2 else the next format on the text
RECURSIVE tentar(_, _), se_vazio(_, _, _)
tentar(nomes, linhas) == se_vazio(laco(nomes[1], linhas), Tail(nomes), linhas)

se_vazio(feito, resto, linhas) ==
    IF Len(resto) = 0 \/ Len(feito.trans) > 0 THEN feito ELSE tentar(resto, linhas)

\* func(texto) for the extractor registered under nome in PROCESSADORES, with
\* the positions of the lines that gave its transactions
execucao(nome, linhas) == tentar(formatos(nome), linhas)

processar_extrato(nome, linhas) == execucao(nome, linhas).trans

-----------------------------------------------------------------------------
(* processar_extrato_universal on a statement text *)

MaxLinhas == 2           \* most lines of a statement text

TarifaColada == Chars("02/03/2024 TARIFA MANUTENCAO 15,90D")
SemHistorico == Chars("01/03/2024 10,00")
SaldoAnterior == Chars("SALDO ANTERIOR 10.000,00")
SaldoAnteriorC == Chars("SALDO ANTERIOR 50,00C")
SoData == Chars("01/03/2024")
DataNubank == Chars("01 MAR 2024")
PixRecebido == Chars("PIX RECEBIDO 20,00 C")
DataInvalida == Chars("31/02/2024 COMPRA 10,00")     \* no such day

LinhasModelo ==
    {TarifaColada, SemHistorico, SaldoAnterior, SaldoAnteriorC, SoData, DataNubank,
     PixRecebido, DataInvalida}

TextosModelo == UNION {[1..k -> LinhasModelo] : k \in 0..MaxLinhas}

\* The state after lines 570-572, for any text of the model
InitTexto ==
    /\ extrato \in TextosModelo
    /\ fontes = {}
    /\ idx = 1
    /\ melhor_df = DataFrameVazio
    /\ melhor_score = ScoreInicial
    /\ melhor_processador = "NENHUM"
    /\ falha = "nenhuma"
    /\ primeiro = [s \in SaidasModelo |-> 0]
    /\ alguma_falha = FALSE
    /\ retorno = NoTable
    /\ pc = "loop"
    /\ InitN0
    /\ InitS0
    /\ InitA0
    /\ InitC0
    /\ InitL0
    /\ InitP0
    /\ InitB0

\* One iteration (lines 576-591): the extractor at idx reads the text, its
\* list is normalized and scored, and a strictly better score replaces the best
IteracaoTexto ==
    /\ pc = "loop"
    /\ \E ex \in {execucao(PROCESSADORES[idx], extrato)} :
         /\ fontes' = ex.fontes
         /\ \E r \in normalizar_transacoes(ex.trans) :
              \E score_atual \in {avaliar_resultado(r[1])} :
                IF Maior(score_atual, melhor_score)
                THEN /\ melhor_score' = score_atual
                     /\ melhor_df' = r[1]
                     /\ melhor_processador' = PROCESSADORES[idx]
                ELSE UNCHANGED <<melhor_score, melhor_df, melhor_processador>>
    /\ falha' = "nenhuma"
    /\ Avanca
    /\ UNCHANGED <<primeiro, alguma_falha, retorno, extrato>>
    /\ UNCHANGED varsN
    /\ UNCHANGED <<varsS, varsA, cenario, varsL, varsP, varsB>>

NextTexto == IteracaoTexto \/ Finalizar

SpecTexto == InitTexto /\ [][NextTexto]_vars

-----------------------------------------------------------------------------
(* Properties of the extractors (checked under SpecTexto) *)

\* str.strip() leaves nothing
EmBranco(historico) == Len(strip(historico)) = 0

SemEmBranco(tabela) ==
    \A j \in 1..Len(tabela.rows) : ~EmBranco(tabela.rows[j].Historico)

\* C11: no row of the best table kept by the loop, nor of the returned table,
\* has an empty or whitespace-only description, whatever the text and the
\* extractor the table came from.
C11_SemDescricaoEmBranco == SemEmBranco(melhor_df) /\ SemEmBranco(retorno)

\* C16: the text made of the one line "02/03/2024 TARIFA MANUTENCAO 15,90D"
\* is returned as exactly one row with amount 15.90 and direction D.
C16_TarifaColadaEDebito ==
    (pc = "retornou" /\ extrato = <<TarifaColada>>) =>
        /\ Len(retorno.rows) = 1
        /\ retorno.rows[1].Valor = 1590
        /\ retorno.rows[1].Tipo = "D"

\* C17: no extractor appends a transaction at the turn of a line that
\* linha_parece_sujo classifies as noise, be it after a date line or with an
\* amount followed by C or D.
C17_SujoNaoContribui ==
    \A i \in fontes : ~linha_parece_sujo(extrato[i])

-----------------------------------------------------------------------------
(* One registered extractor run line by line on a statement text: the
   "for linha in linhas" loop turn by turn, the second grammar of the
   two-format banks, the return, and normalizar_transacoes on the list *)

MaxLinhasLaco == 3       \* most lines of a statement text of this run

SoDataCurta == Chars("01/03")
Fragmento == Chars("FRAG ABC")
CompraLoja == Chars("02/03 COMPRA LOJA 10,00")
Pagto == Chars("PAGTO 20,00")
Boleto == Chars("01/03/2024 PAGAMENTO DE BOLETO 1.234,56")
PixSicoob == Chars("01/03 PIX RECEBIDO 20,00C")
PixCaixa == Chars("01/03/2024 123 PIX 10,00 C")
PixSantander == Chars("01/03/2024 PIX 123 10,00")
ItauMai == Chars("1 / mai COMPRA -10,00")
ItauXyz == Chars("2 / xyz TAXA 5,00")
NubankXyz == Chars("01 XYZ 2024")
InterMaio == Chars("1 de maio de 2024 Saldo do dia: 5,00")
InterMaiu == Chars("1 de maiu de 2024 Saldo do dia: 5,00")
InterPix == Chars("Pix -R$ 10,00 R$ 90,00")
InterCar == Chars("CAR 10,00 R$ 90,00")

\* The lines a text handed to the extractor is made of: lines of the bank's own
\* layout, a fragment, an amount line and lines of other layouts
LinhasDoBanco(nome) ==
    CASE nome = "ITAU" -> {SoDataCurta, Fragmento, Pagto, CompraLoja, ItauMai, ItauXyz}
      [] nome = "SANTANDER" -> {SoDataCurta, Fragmento, Pagto, CompraLoja, Boleto,
                                PixSantander}
      [] nome = "CAIXA" -> {Fragmento, Pagto, Boleto, PixCaixa}
      [] nome = "SICOOB" -> {SoDataCurta, Fragmento, Pagto, Boleto, PixSicoob}
      [] nome = "NUBANK" -> {Fragmento, Pagto, DataNubank, NubankXyz, Boleto}
      [] nome = "INTER" -> {Fragmento, Pagto, InterMaio, InterMaiu, InterPix, InterCar}
      [] nome = "SAFRA" -> {SoDataCurta, Fragmento, Pagto, CompraLoja, Boleto}
      [] OTHER -> {SoData, Fragmento, Pagto, Boleto, PixCaixa}

TextosDoBanco(nome) == UNION {[1..k -> LinhasDoBanco(nome)] : k \in 0..MaxLinhasLaco}

Registrados == {PROCESSADORES[k] : k \in 1..NumProcessadores}

SemPasso == [lida |-> 0, antes |-> Estado0]

\* A raising expression was evaluated into the state of the loop
Marcado(s) == \E k \in 1..Len(s) : s[k] \in {AttributeError, IndexError}

Levantou(st) ==
    \/ Marcado(st.current_date)
    \/ \E j \in 1..Len(st.buffer) : Marcado(st.buffer[j])
    \/ \E j \in 1..Len(st.trans) :
         \/ Marcado(st.trans[j].Data)
         \/ Marcado(st.trans[j].Historico)
         \/ Marcado(st.trans[j].Valor.v)
         \/ Marcado(st.trans[j].Tipo)

\* processador(texto) is entered (line 578): linhas = texto.splitlines() and
\* trans, current_date, buffer = [], None, [] of the first grammar
InitLaco ==
    /\ banco \in Registrados
    /\ extrato \in TextosDoBanco(banco)
    /\ fontes = {}
    /\ formato = 1
    /\ pos = 1
    /\ estado = Estado0
    /\ ultimo = SemPasso
    /\ devolvido = <<>>
    /\ normal = NoTable
    /\ pcL = "laco"
    /\ idx = 0
    /\ melhor_df = DataFrameVazio
    /\ melhor_score = ScoreInicial
    /\ melhor_processador = "NENHUM"
    /\ falha = "nenhuma"
    /\ primeiro = [s \in SaidasModelo |-> 0]
    /\ alguma_falha = FALSE
    /\ retorno = NoTable
    /\ pc = "parado"
    /\ InitN0
    /\ InitS0
    /\ InitA0
    /\ InitC0
    /\ InitP0
    /\ InitB0

\* One turn of "for linha in linhas": the loop body on the line at pos. An
\* exception raised in the body leaves the loop and the function.
Linha ==
    /\ pcL = "laco"
    /\ pos <= Len(extrato)
    /\ \E depois \in {passo(formatos(banco)[formato], estado, extrato[pos])} :
         /\ estado' = depois
         /\ fontes' = IF Len(depois.trans) > Len(estado.trans) THEN fontes \cup {pos}
                      ELSE fontes
         /\ pcL' = IF Levantou(depois) THEN "excecao" ELSE "laco"
    /\ ultimo' = [lida |-> pos, antes |-> estado]
    /\ pos' = pos + 1
    /\ UNCHANGED <<banco, formato, devolvido, normal, extrato>>
    /\ UNCHANGED <<varsN, varsU, varsS, varsA, cenario, varsP, varsB>>

\* Lines 172 and 239: the first grammar returned an empty list, so the second
\* one is run on the same text
OutroFormato ==
    /\ pcL = "laco"
    /\ pos > Len(extrato)
    /\ Len(estado.trans) = 0
    /\ formato < Len(formatos(banco))
    /\ formato' = formato + 1
    /\ pos' = 1
    /\ estado' = Estado0
    /\ ultimo' = SemPasso
    /\ fontes' = {}
    /\ UNCHANGED <<banco, devolvido, normal, pcL, extrato>>
    /\ UNCHANGED <<varsN, varsU, varsS, varsA, cenario, varsP, varsB>>

\* return trans at the end of the first grammar whatever it found
Devolve_sem_segundo_formato ==
    /\ pcL = "laco"
    /\ pos > Len(extrato)
    /\ devolvido' = estado.trans
    /\ pcL' = "devolveu"
    /\ UNCHANGED <<banco, formato, pos, estado, ultimo, normal, extrato, fontes>>
    /\ UNCHANGED <<varsN, varsU, varsS, varsA, cenario, varsP, varsB>>

\* return trans
Devolve ==
    /\ pcL = "laco"
    /\ pos > Len(extrato)
    /\ Len(estado.trans) > 0 \/ formato = Len(formatos(banco))
    /\ devolvido' = estado.trans
    /\ pcL' = "devolveu"
    /\ UNCHANGED <<banco, formato, pos, estado, ultimo, normal, extrato, fontes>>
    /\ UNCHANGED <<varsN, varsU, varsS, varsA, cenario, varsP, varsB>>

\* Line 581: df_atual = normalizar_transacoes(transacoes_raw)
NormalizaLista ==
    /\ pcL = "devolveu"
    /\ \E r \in normalizar_transacoes(devolvido) : normal' = r[1]
    /\ pcL' = "normalizou"
    /\ UNCHANGED <<banco, formato, pos, estado, ultimo, devolvido, extrato, fontes>>
    /\ UNCHANGED <<varsN, varsU, varsS, varsA, cenario, varsP, varsB>>

NextLaco == Linha \/ OutroFormato \/ Devolve \/ NormalizaLista

SpecLaco == InitLaco /\ [][NextLaco]_vars

\* What each step of NextLaco does to the position in the function: the next
\* turn of the loop, the second grammar or the return after the last line,
\* the call of line 581 after the return
Controle ==
    \/ /\ pcL = "laco"
       /\ pos <= Len(extrato)
       /\ pos' = pos + 1
       /\ formato' = formato
       /\ pcL' \in {"laco", "excecao"}
    \/ /\ pcL = "laco"
       /\ pos > Len(extrato)
       /\ IF Len(estado.trans) = 0 /\ formato < Len(formatos(banco))
          THEN pos' = 1 /\ formato' = formato + 1 /\ pcL' = "laco"
          ELSE pos' = pos /\ formato' = formato /\ pcL' = "devolveu"
    \/ /\ pcL = "devolveu"
       /\ pos' = pos
       /\ formato' = formato
       /\ pcL' = "normalizou"

\* The interpreter runs the next statement of the function while there is one
SpecLacoJusto == SpecLaco /\ WF_<<pos, formato, pcL>>(Controle)

-----------------------------------------------------------------------------
(* Properties of the extractors run line by line (checked under SpecLaco and
   SpecLacoJusto) *)

\* The turn that read a line left the list as it was or appended one record
UmaPorLinha ==
    ultimo.lida > 0 =>
        /\ Len(estado.trans) \in {Len(ultimo.antes.trans), Len(ultimo.antes.trans) + 1}
        /\ SubSeq(estado.trans, 1, Len(ultimo.antes.trans)) = ultimo.antes.trans

\* C21: no extractor raises on a text: no turn of a loop evaluates a raising
\* expression, every turn appends one record or none (the line is then
\* buffered or skipped), and every run reaches its return with all the lines
\* of the text read, whatever lines came before.
C21_NuncaLevanta ==
    /\ [](pcL # "excecao" /\ UmaPorLinha)
    /\ <>(pcL = "devolveu" /\ pos = Len(extrato) + 1)

\* a line that gave no record is followed by a line that gave one
C21_Witness ==
    /\ pcL = "devolveu"
    /\ \E i \in fontes : i > 1 /\ (i - 1) \notin fontes

\* The turn just taken appended a record
Emitiu == ultimo.lida > 0 /\ Len(estado.trans) > Len(ultimo.antes.trans)

Emitido == estado.trans[Len(estado.trans)]

LinhaLida == extrato[ultimo.lida]

\* The text carries no direction marker: no minus sign, no letter C or D
\* standing alone or after an amount, none of the keywords lines 328-330 and
\* 404 look for
PalavrasDeDirecao ==
    {Chars("emit.outra if"), Chars("deb"), Chars("receb.outra if"), Chars("cred"),
     Chars("transf.contas"), Chars("recebid"), Chars("enviado")}

SemMarca(l) ==
    /\ ~contem(l, <<"-">>)
    /\ ~re_search(Cat(<<WB, Um({"C", "D"}), WB>>), l).ok
    /\ ~re_search(Cat(<<VALOR, Star(Ws), Um({"C", "D"})>>), l).ok
    /\ \A w \in PalavrasDeDirecao : ~contem(lower(l), w)

\* C24: a record built from a line without a C/D letter, a minus sign or a
\* direction keyword (nor any in the fragments buffered before it) has
\* direction C, whichever extractor built it.
C24_SemMarcaECredito ==
    (/\ Emitiu
     /\ SemMarca(LinhaLida)
     /\ \A j \in 1..Len(ultimo.antes.buffer) : SemMarca(ultimo.antes.buffer[j]))
        => Emitido.Tipo = <<"C">>

\* The date token at the start of a Sicoob line and the amount, with or
\* without the letter, at its end
DataNoInicio(l) == re_match(Grp(1, DDMM), l)

ValorNoFim(l) ==
    re_search(Cat(<<Grp(1, VALOR), Star(Ws), Opt(Um({"C", "D"})), Star(Ws), Eol>>), l)

\* The text of the line between its date token and its amount token, cleaned
\* as lines 314-315 clean a description
EntreDataEValor(l) ==
    strip(colapsa(strip(re_sub(DOC_OU_TED, <<>>,
        strip(fatia(l, DataNoInicio(l).fim, ValorNoFim(l).ini))))))

\* C29: a record the Sicoob extractor builds from a line that starts with a
\* date token and ends with an amount has as description the text between
\* the two tokens, and the amount token is not part of it.
C29_DescricaoEntreDataEValor ==
    (/\ banco = "SICOOB"
     /\ Emitiu
     /\ DataNoInicio(strip(LinhaLida)).ok
     /\ ValorNoFim(strip(LinhaLida)).ok)
        => /\ Emitido.Historico = EntreDataEValor(strip(LinhaLida))
           /\ ~contem(Emitido.Historico, Emitido.Valor.v)

\* The loop being run and the loops that keep a buffer of fragments
LacoAtual == formatos(banco)[formato]

ComBuffer == {"BB", "ITAU_FORMATO2", "BRADESCO", "SICOOB", "BNB", "NUBANK", "SAFRA"}

\* The date token a buffering loop looks for at the start of a line
TokenDeData(nome) ==
    CASE nome \in {"BB", "BRADESCO", "BNB"} -> Grp(1, DDMMAAAA)
      [] nome = "ITAU_FORMATO2" -> Cat(<<Grp(1, DDMM), WB>>)
      [] nome \in {"SICOOB", "SAFRA"} -> Grp(1, DDMM)
      [] nome = "NUBANK" ->
           Cat(<<Grp(1, Rep(Dg, 2, 2)), Plus(Ws),
                 Grp(2, Rep(Um({Maiusculas[k] : k \in 1..27}), 3, 3)),
                 Plus(Ws), Grp(3, Rep(Dg, 4, 4))>>)

ComecaComData(nome, l) == re_match(TokenDeData(nome), strip(l)).ok

\* What is left of a line after its date token
RestoDaLinha(nome, l) ==
    strip(desde(strip(l), re_match(TokenDeData(nome), strip(l)).fim))

\* The date a date-token line stands for, in the form the loop writes it
DataDoToken(nome, l) ==
    LET m == re_match(TokenDeData(nome), strip(l))
    IN  CASE nome \in {"BB", "BRADESCO", "BNB"} -> grupo(m, strip(l), 1)
          [] nome \in {"ITAU_FORMATO2", "SAFRA"} -> grupo(m, strip(l), 1) \o Chars("/2024")
          [] nome = "SICOOB" -> grupo(m, strip(l), 1) \o Chars("/2021")
          [] nome = "NUBANK" ->
               grupo(m, strip(l), 1) \o <<"/">> \o meses_nubank(grupo(m, strip(l), 2))
                 \o <<"/">> \o grupo(m, strip(l), 3)

\* C25: in a buffering extractor, the turn that read a line starting with a
\* date token leaves in the buffer nothing but what follows the token on that
\* line, and a record it appended holds no (non-empty) fragment buffered before.
C25_DataEsvaziaBuffer ==
    (/\ pcL = "laco"
     /\ ultimo.lida > 0
     /\ LacoAtual \in ComBuffer
     /\ ComecaComData(LacoAtual, LinhaLida))
        => /\ estado.buffer \in {<<>>, <<RestoDaLinha(LacoAtual, LinhaLida)>>}
           /\ Emitiu => \A j \in 1..Len(ultimo.antes.buffer) :
                            \/ Len(ultimo.antes.buffer[j]) = 0
                            \/ ~contem(Emitido.Historico, ultimo.antes.buffer[j])

\* The last line at or before position i that starts with a date token (0: none)
RECURSIVE UltimaData(_, _)
UltimaData(nome, i) ==
    IF i = 0 THEN 0
    ELSE IF ComecaComData(nome, extrato[i]) THEN i
    ELSE UltimaData(nome, i - 1)

\* C26: in a buffering extractor no record is appended before a line starting
\* with a date token was read, and an appended record carries the date of the
\* last such line at or before its own line.
C26_DataCorrenteFixa ==
    (/\ pcL = "laco"
     /\ LacoAtual \in ComBuffer
     /\ Emitiu)
        => /\ UltimaData(LacoAtual, ultimo.lida) > 0
           /\ Emitido.Data = DataDoToken(LacoAtual,
                                         extrato[UltimaData(LacoAtual, ultimo.lida)])

DoisFormatos == {"ITAU", "SANTANDER"}

\* The list the newer and the older grammar of the bank give on the text
TransNovo == laco(formatos(banco)[1], extrato).trans

TransAntigo == laco(formatos(banco)[2], extrato).trans

\* C27: what processar_extrato_itau and processar_extrato_santander return is
\* the list of the newer grammar (format 2) whenever that list is not empty,
\* and the list of the older grammar (format 1) on the same text exactly when
\* the newer one is empty; it is always one of the two lists, never a mixture
C27_NovoOuAntigo ==
    (pcL = "devolveu" /\ banco \in DoisFormatos) =>
        /\ devolvido = IF Len(TransNovo) > 0 THEN TransNovo ELSE TransAntigo
        /\ formato = 2 <=> Len(TransNovo) = 0
        /\ devolvido \in {TransNovo, TransAntigo}

\* The older grammar's records are returned after the newer one found none
C27_Witness ==
    /\ pcL = "devolveu"
    /\ banco \in DoisFormatos
    /\ formato = 2
    /\ Len(devolvido) > 0
    /\ Len(TransNovo) = 0

\* The newer grammar's records are returned although the older grammar reads
\* more records in the same text
C27_WitnessNovo ==
    /\ pcL = "devolveu"
    /\ banco \in DoisFormatos
    /\ formato = 1
    /\ Len(TransAntigo) > Len(devolvido)

\* "<day> de <month> de <year> Saldo do dia:" somewhere in the line
AncoraInter ==
    Cat(<<Rep(Dg, 1, 2), Plus(Ws), LitI("de"), Plus(Ws),
          Plus(Um(LetrasAscii \cup {CCedilha, CCedilhaM})), Plus(Ws), LitI("de"),
          Plus(Ws), Rep(Dg, 4, 4), Plus(Ws), LitI("saldo"), Plus(Ws), LitI("do"),
          Plus(Ws), LitI("dia:")>>)

TemAncora(l) == re_search(AncoraInter, l).ok

\* The amount tokens of the line, from left to right
TokensDeValor(l) == re_findall(Grp(1, VALOR), l)

\* C28: in the Inter extractor only a line with the anchor "<day> de <month>
\* de <year> Saldo do dia:" changes the current date, such a line never gives
\* a record, and a line gives a record only if it holds at least two amount
\* tokens, the record's amount being the first of them
C28_AncoraEPrimeiroValor ==
    (banco = "INTER" /\ ultimo.lida > 0) =>
        /\ estado.current_date # ultimo.antes.current_date => TemAncora(LinhaLida)
        /\ TemAncora(LinhaLida) => ~Emitiu
        /\ Emitiu => /\ Len(TokensDeValor(LinhaLida)) >= 2
                     /\ Emitido.Valor.v = TokensDeValor(LinhaLida)[1]

\* The same without the line whose first amount follows a word ending in R
C28_SemRSolto ==
    (\A k \in 1..Len(extrato) : extrato[k] # InterCar) => C28_AncoraEPrimeiroValor

ComNomeDeMes == {"ITAU_FORMATO1", "NUBANK", "INTER"}

\* The keys of the three dictionaries meses (lines 127, 388, 452)
MesesConhecidos(nome) ==
    CASE nome = "ITAU_FORMATO1" ->
           {Chars("jan"), Chars("fev"), Chars("mar"), Chars("abr"), Chars("mai"),
            Chars("jun"), Chars("jul"), Chars("ago"), Chars("set"), Chars("out"),
            Chars("nov"), Chars("dez")}
      [] nome = "NUBANK" ->
           {Chars("JAN"), Chars("FEV"), Chars("MAR"), Chars("ABR"), Chars("MAI"),
            Chars("JUN"), Chars("JUL"), Chars("AGO"), Chars("SET"), Chars("OUT"),
            Chars("NOV"), Chars("DEZ"), <<"M", CCedilhaM, "O">>}
      [] nome = "INTER" ->
           {Chars("janeiro"), Chars("fevereiro"), <<"m", "a", "r", CCedilha, "o">>,
            Chars("marco"), Chars("abril"), Chars("maio"), Chars("junho"),
            Chars("julho"), Chars("agosto"), Chars("setembro"), Chars("outubro"),
            Chars("novembro"), Chars("dezembro")}

\* The month name or abbreviation the extractor's date pattern finds in the
\* line, as it is looked up; None when the pattern does not match
MesProcurado(nome, l) ==
    CASE nome = "ITAU_FORMATO1" ->
           LET m == re_search(Cat(<<Rep(Dg, 1, 2), Star(Ws), Lit("/"), Star(Ws),
                                    Grp(1, Rep(Um(LetrasAscii), 3, 3))>>), l)
           IN  IF m.ok THEN lower(grupo(m, l, 1)) ELSE None
      [] nome = "NUBANK" ->
           LET m == re_match(Cat(<<Rep(Dg, 2, 2), Plus(Ws),
                                   Grp(1, Rep(Um({Maiusculas[k] : k \in 1..27}), 3, 3)),
                                   Plus(Ws), Rep(Dg, 4, 4)>>), l)
           IN  IF m.ok THEN grupo(m, l, 1) ELSE None
      [] nome = "INTER" ->
           LET m == re_search(Cat(<<Rep(Dg, 1, 2), Plus(Ws), LitI("de"), Plus(Ws),
                                    Grp(1, Plus(Um(LetrasAscii
                                                     \cup {CCedilha, CCedilhaM}))),
                                    Plus(Ws), LitI("de"), Plus(Ws), Rep(Dg, 4, 4),
                                    Plus(Ws), LitI("saldo"), Plus(Ws), LitI("do"),
                                    Plus(Ws), LitI("dia:")>>), l)
           IN  IF m.ok THEN lower(grupo(m, l, 1)) ELSE None

MesForaDaTabela(nome, l) ==
    /\ MesProcurado(nome, l) # None
    /\ MesProcurado(nome, l) \notin MesesConhecidos(nome)

\* The month field of a dd/mm/yyyy text
MesZero(d) == Len(d) >= 5 /\ SubSeq(d, 4, 5) = Chars("00")

\* C30: when the month name or abbreviation a month-name extractor (Itau
\* format 1, Nubank, Inter) matched is not in its table, the date it builds
\* carries month "00" and so does every candidate dated with it; the
\* normalization drops every candidate with month "00", so no row of the
\* normalized table has an unrecognised month
C30_MesDesconhecidoNaoChega ==
    /\ (ultimo.lida > 0 /\ LacoAtual \in ComNomeDeMes
          /\ MesForaDaTabela(LacoAtual, strip(LinhaLida))) =>
           IF LacoAtual = "ITAU_FORMATO1" THEN Emitiu => MesZero(Emitido.Data)
           ELSE MesZero(estado.current_date)
    /\ (Emitiu /\ LacoAtual \in {"NUBANK", "INTER"}) =>
           Emitido.Data = estado.current_date
    /\ (pcL = "normalizou" /\ LacoAtual \in ComNomeDeMes) =>
           /\ \A j \in 1..Len(normal.rows) : ~MesZero(normal.rows[j].Data)
           /\ Len(normal.rows) <=
                Cardinality({i \in 1..Len(devolvido) : ~MesZero(devolvido[i].Data)})

\* A list with a candidate of an unrecognised month and one of a known month
\* has been normalized
C30_Witness ==
    /\ pcL = "normalizou"
    /\ LacoAtual \in ComNomeDeMes
    /\ \E i \in 1..Len(devolvido) : MesZero(devolvido[i].Data)
    /\ Len(normal.rows) > 0

-----------------------------------------------------------------------------
(* The columns of the returned table (checked under SpecTexto) *)

\* C23: every table processar_extrato_universal returns, with rows or without,
\* has exactly the four columns Data, Historico, Valor, Tipo in that order;
\* the auxiliary column Data_dt is never among them
C23_QuatroColunas ==
    pc = "retornou" => retorno.cols = Cols4

-----------------------------------------------------------------------------
(* The iterations of lines 576-591 completing in any order: every extractor
   is run on the same text, and each finished run's table and score are
   folded into melhor_df, melhor_score, melhor_processador by lines 587-590.
   A run reads the text alone (the extractors, normalizar_transacoes and
   avaliar_resultado keep no state between calls), so what each run gives is
   fixed when the runs are started. *)

MaxLinhasPar == 2        \* most lines of a statement text of this run

LinhasPar == {TarifaColada, ItauMai, DataNubank}

TextosPar == UNION {[1..k -> LinhasPar] : k \in 0..MaxLinhasPar}

\* df_atual and score_atual of lines 578-584 for the extractor on the text
ResultadosDe(nome, linhas) ==
    {[df |-> r[1], score |-> avaliar_resultado(r[1])] :
        r \in normalizar_transacoes(processar_extrato(nome, linhas))}

\* What the first k registered extractors can give on the text, by position
RECURSIVE ResultadosAte(_, _)
ResultadosAte(k, linhas) ==
    IF k = 0 THEN {<<>>}
    ELSE {Append(ate_k, r) : ate_k \in ResultadosAte(k - 1, linhas),
                             r \in ResultadosDe(PROCESSADORES[k], linhas)}

PosicaoDe(nome) == CHOOSE k \in 1..NumProcessadores : PROCESSADORES[k] = nome

InitParalelo ==
    /\ extrato \in TextosPar
    /\ \E por_posicao \in ResultadosAte(NumProcessadores, extrato) :
         resultados = [n \in Registrados |-> por_posicao[PosicaoDe(n)]]
    /\ pendentes = Registrados
    /\ fontes = {}
    /\ idx = 0
    /\ melhor_df = DataFrameVazio
    /\ melhor_score = ScoreInicial
    /\ melhor_processador = "NENHUM"
    /\ falha = "nenhuma"
    /\ primeiro = [s \in SaidasModelo |-> 0]
    /\ alguma_falha = FALSE
    /\ retorno = NoTable
    /\ pc = "loop"
    /\ InitN0
    /\ InitS0
    /\ InitA0
    /\ InitC0
    /\ InitL0
    /\ InitB0

\* The fold with the comparison left out: the run that completes replaces the
\* best whatever its score
Completa_sempre_troca(nome) ==
    /\ pc = "loop"
    /\ nome \in pendentes
    /\ melhor_score' = resultados[nome].score
    /\ melhor_df' = resultados[nome].df
    /\ melhor_processador' = nome
    /\ pendentes' = pendentes \ {nome}
    /\ pc' = IF pendentes = {nome} THEN "fim" ELSE "loop"
    /\ UNCHANGED <<idx, falha, primeiro, alguma_falha, retorno, resultados, extrato,
                   fontes>>
    /\ UNCHANGED <<varsN, varsS, varsA, cenario, varsL, varsB>>

\* The run of the named extractor completes and lines 587-590 fold its result:
\* a strictly better score replaces the best
Completa(nome) ==
    /\ pc = "loop"
    /\ nome \in pendentes
    /\ IF Maior(resultados[nome].score, melhor_score)
       THEN /\ melhor_score' = resultados[nome].score
            /\ melhor_df' = resultados[nome].df
            /\ melhor_processador' = nome
       ELSE UNCHANGED <<melhor_score, melhor_df, melhor_processador>>
    /\ pendentes' = pendentes \ {nome}
    /\ pc' = IF pendentes = {nome} THEN "fim" ELSE "loop"
    /\ UNCHANGED <<idx, falha, primeiro, alguma_falha, retorno, resultados, extrato,
                   fontes>>
    /\ UNCHANGED <<varsN, varsS, varsA, cenario, varsL, varsB>>

NextParalelo == (\E nome \in Registrados : Completa(nome)) \/ Finalizar

SpecParalelo == InitParalelo /\ [][NextParalelo]_vars

\* The loop of lines 576-591 in registration order over the same results, from
\* its k-th iteration on
RECURSIVE dobrar(_, _, _)
dobrar(res, k, melhor) ==
    IF k > NumProcessadores THEN melhor
    ELSE dobrar(res, k + 1,
                IF Maior(res[PROCESSADORES[k]].score, melhor.score)
                THEN [df |-> res[PROCESSADORES[k]].df,
                      score |-> res[PROCESSADORES[k]].score,
                      processador |-> PROCESSADORES[k]]
                ELSE melhor)

\* Lines 599-605 on the best table
devolver(tabela) ==
    IF Len(tabela.rows) > 0 /\ \E k \in 1..Len(tabela.cols) : tabela.cols[k] = "Data_dt"
    THEN drop(tabela, "Data_dt")
    ELSE tabela

Sequencial ==
    dobrar(resultados, 1,
           [df |-> DataFrameVazio, score |-> ScoreInicial, processador |-> "NENHUM"])

\* The extractors no other extractor's score is greater than
Melhores ==
    {n \in Registrados :
        \A m \in Registrados : ~Maior(resultados[m].score, resultados[n].score)}

-----------------------------------------------------------------------------
(* The description buffer of the buffering extractors (checked under
   SpecLaco) *)

\* The fragments buffered before the turn whose text is in the description
\* of the record the turn emitted
FragmentosUsados ==
    {j \in 1..Len(ultimo.antes.buffer) :
        /\ Len(ultimo.antes.buffer[j]) > 0
        /\ contem(Emitido.Historico, ultimo.antes.buffer[j])}

\* C31: in the buffering extractors a buffered fragment goes into the
\* description of at most one record: the turn that joins fragments of the
\* buffer into its record leaves the buffer empty, and no fragment joined
\* into the record is in the description of an earlier record
C31_FragmentoUmaVez ==
    (ultimo.lida > 0 /\ LacoAtual \in ComBuffer /\ Emitiu) =>
        /\ FragmentosUsados # {} => estado.buffer = <<>>
        /\ \A j \in FragmentosUsados :
             \A i \in 1..Len(ultimo.antes.trans) :
                ~contem(ultimo.antes.trans[i].Historico, ultimo.antes.buffer[j])

\* A record took a buffered fragment after an earlier record was emitted
C31_Witness ==
    /\ ultimo.lida > 0
    /\ LacoAtual \in ComBuffer
    /\ Emitiu
    /\ Len(ultimo.antes.trans) > 0
    /\ FragmentosUsados # {}

-----------------------------------------------------------------------------
(* The single-line extractors (checked under SpecLaco) *)

UmaLinhaSo == {"CAIXA", "XP", "SANTANDER_FORMATO2", "GENERICO"}

\* The candidate list of the extractor on the text made of the one line
DaLinhaSozinha(nome, l) == laco(nome, <<l>>).trans

\* C32: the single-line extractors (Caixa, XP, Santander format 2, generic)
\* keep nothing from one line to the next: each turn appends to trans exactly
\* the list its line gives when it is the whole text, at most one candidate,
\* so that the list for a text is the concatenation, in order, of the lists
\* of its lines taken alone
C32_SemEstadoEntreLinhas ==
    (pcL \in {"laco", "devolveu"} /\ LacoAtual \in UmaLinhaSo) =>
        /\ estado.current_date = None
        /\ estado.buffer = <<>>
        /\ ultimo.lida = 0 => estado.trans = <<>>
        /\ ultimo.lida > 0 =>
             /\ estado.trans =
                  ultimo.antes.trans \o DaLinhaSozinha(LacoAtual, LinhaLida)
             /\ Len(DaLinhaSozinha(LacoAtual, LinhaLida)) <= 1

\* A text whose lines gave two candidates and a line without one was returned
C32_Witness ==
    /\ pcL = "devolveu"
    /\ LacoAtual \in UmaLinhaSo
    /\ Len(devolvido) = 2
    /\ Len(extrato) = 3

-----------------------------------------------------------------------------
(* The classification of an extracted table in batches
   (streamlit_extrato_profissional.py, lines 276-350): the table is cut in
   batches of TAMANHO_DO_LOTE rows, each batch is sent to the classifier, and
   each list it replies is added to dados_classificados_lote *)

TAMANHO_DO_LOTE == 50

MaxTransacoes == 120     \* most rows of the extracted table

\* df.iloc[start:end]: the rows at the 0-based positions start .. end-1 that
\* the table has
iloc(tabela, start, end) ==
    SubSeq(tabela, start + 1, IF end < Len(tabela) THEN end ELSE Len(tabela))

\* How the try block of lines 328-347 can end for a batch: the reply is a
\* JSON list (one entry per row, or an empty list), the reply is JSON but not
\* a list, or a statement of the block raises
Desfechos(lote_df) ==
    {[tipo |-> "lista", dados |-> lote_df],
     [tipo |-> "lista", dados |-> <<>>],
     [tipo |-> "nao_lista", dados |-> <<>>],
     [tipo |-> "excecao", dados |-> <<>>]}

\* Lines 266-277 and 305: a table with rows came back, and the number of
\* batches is computed
InitLotes ==
    /\ df_transacoes \in {[k \in 1..n |-> k] : n \in 1..MaxTransacoes}
    /\ n_batches = (Len(df_transacoes) \div TAMANHO_DO_LOTE)
                     + (IF Len(df_transacoes) % TAMANHO_DO_LOTE > 0 THEN 1 ELSE 0)
    /\ lote = 0
    /\ enviados = <<>>
    /\ respostas = <<>>
    /\ dados_classificados_lote = <<>>
    /\ pcB = "lotes"
    /\ idx = 0
    /\ melhor_df = DataFrameVazio
    /\ melhor_score = ScoreInicial
    /\ melhor_processador = "NENHUM"
    /\ falha = "nenhuma"
    /\ primeiro = [s \in SaidasModelo |-> 0]
    /\ alguma_falha = FALSE
    /\ retorno = NoTable
    /\ pc = "parado"
    /\ InitN0
    /\ InitS0
    /\ InitA0
    /\ InitC0
    /\ InitT0
    /\ InitL0
    /\ InitP0

\* The iteration with the try around the whole loop: a batch that raises ends
\* the classification
ClassificaLote_para_na_excecao ==
    /\ pcB = "lotes"
    /\ lote < n_batches
    /\ LET start_index == lote * TAMANHO_DO_LOTE
           end_index == start_index + TAMANHO_DO_LOTE
           lote_df == iloc(df_transacoes, start_index, end_index)
       IN  \E desfecho \in Desfechos(lote_df) :
             /\ enviados' = Append(enviados, lote_df)
             /\ respostas' = Append(respostas, desfecho)
             /\ dados_classificados_lote' =
                  IF desfecho.tipo = "lista"
                  THEN dados_classificados_lote \o desfecho.dados
                  ELSE dados_classificados_lote
             /\ pcB' = IF desfecho.tipo = "excecao" THEN "fim" ELSE "lotes"
    /\ lote' = lote + 1
    /\ UNCHANGED <<df_transacoes, n_batches>>
    /\ UNCHANGED <<varsN, varsU, varsS, varsA, cenario, varsT, varsL, varsP>>

\* One iteration of "for j in range(n_batches)" (lines 308-347): the batch is
\* cut and sent; a list reply is added to dados_classificados_lote, any other
\* reply gives a warning, an exception gives an error message, and the loop
\* goes on
ClassificaLote ==
    /\ pcB = "lotes"
    /\ lote < n_batches
    /\ LET start_index == lote * TAMANHO_DO_LOTE
           end_index == start_index + TAMANHO_DO_LOTE
           lote_df == iloc(df_transacoes, start_index, end_index)
       IN  \E desfecho \in Desfechos(lote_df) :
             /\ enviados' = Append(enviados, lote_df)
             /\ respostas' = Append(respostas, desfecho)
             /\ dados_classificados_lote' =
                  IF desfecho.tipo = "lista"
                  THEN dados_classificados_lote \o desfecho.dados
                  ELSE dados_classificados_lote
    /\ lote' = lote + 1
    /\ UNCHANGED <<df_transacoes, n_batches, pcB>>
    /\ UNCHANGED <<varsN, varsU, varsS, varsA, cenario, varsT, varsL, varsP>>

\* Lines 349-350: the loop is over
FimDosLotes ==
    /\ pcB = "lotes"
    /\ lote = n_batches
    /\ pcB' = "fim"
    /\ UNCHANGED <<df_transacoes, n_batches, lote, enviados, respostas,
                   dados_classificados_lote>>
    /\ UNCHANGED <<varsN, varsU, varsS, varsA, cenario, varsT, varsL, varsP>>

NextLotes == ClassificaLote \/ FimDosLotes

SpecLotes == InitLotes /\ [][NextLotes]_vars

-----------------------------------------------------------------------------
(* Properties of the batches (checked under SpecLotes) *)

LinhasDoLote(k) == {enviados[k][i] : i \in 1..Len(enviados[k])}

\* The list replies so far, one after the other
RECURSIVE ListasAte(_)
ListasAte(k) ==
    IF k = 0 THEN <<>>
    ELSE ListasAte(k - 1) \o (IF respostas[k].tipo = "lista" THEN respostas[k].dados
                              ELSE <<>>)

\* C33: the batches sent are runs of at most 50 consecutive rows, each
\* starting where the one before ended, so they are in table order and
\* pairwise disjoint; when the loop is over every row of the table was sent
\* in exactly one batch; and whatever way a batch ended (exception, reply that
\* is no list), the lists replied for the other batches are all kept, in
\* order, and every batch of the table was sent
C33_LotesCobremEFalhaIsolada ==
    /\ \A k \in 1..Len(enviados) :
         /\ Len(enviados[k]) \in 1..TAMANHO_DO_LOTE
         /\ \A i \in 1..(Len(enviados[k]) - 1) : enviados[k][i + 1] = enviados[k][i] + 1
         /\ enviados[k][1] = IF k = 1 THEN df_transacoes[1]
                             ELSE enviados[k - 1][Len(enviados[k - 1])] + 1
    /\ \A k1, k2 \in 1..Len(enviados) :
         k1 # k2 => LinhasDoLote(k1) \cap LinhasDoLote(k2) = {}
    /\ dados_classificados_lote = ListasAte(Len(respostas))
    /\ Len(respostas) = Len(enviados)
    /\ pcB = "fim" =>
         /\ Len(enviados) = n_batches
         /\ \A r \in 1..Len(df_transacoes) :
              Cardinality({k \in 1..Len(enviados) : df_transacoes[r] \in LinhasDoLote(k)})
                = 1

\* A table of three batches, the last one short, whose second batch raised and
\* whose first and third replies are kept
C33_Witness ==
    /\ pcB = "fim"
    /\ Len(respostas) = 3
    /\ Len(enviados[3]) < TAMANHO_DO_LOTE
    /\ respostas[2].tipo = "excecao"
    /\ dados_classificados_lote = enviados[1] \o enviados[3]

=============================================================================
